---- MODULE Spec2Model ----
(***************************************************************************)
(* Collector: the collection engine's progress tracker                     *)
(* (src/core/progress_tracker.py), worker pool (src/core/worker_pool.py)   *)
(* and collect() orchestration (src/core/collection_service.py).           *)
(*                                                                         *)
(* Threads are numbered: 0 is the thread that owns the service (it calls   *)
(* collect(), set_total()); 1.. are worker threads of the pool (Spec,      *)
(* CancelSpec) or further client threads of one tracker (CounterSpec,      *)
(* NotifySpec).                                                            *)
(* Subscribers are numbered 1..MaxSubs; files are numbered 1..nFiles in    *)
(* the order of the list handed to the pool; 0 stands for None.            *)
(* Time is counted in ticks of 0.01 s (the smallest notify interval).      *)
(***************************************************************************)
EXTENDS Integers, Sequences, FiniteSets, TLC

\* ---- bounds of the model ----
MaxClients == 1      \* CounterSpec, NotifySpec: client threads are 0..MaxClients
MaxCpu == 2          \* Spec, CancelSpec: os.cpu_count() ranges over 1..MaxCpu
MaxSubs == 2         \* subscribers 1..MaxSubs
MaxElapsed == 2      \* notify intervals that elapse on the clock
PctScale == 1000     \* percentages are fixed-point: 100.0 is 100 * PctScale

None == 0
\* the value of the tracker's mutex when no thread holds it
Unlocked == -1

Max(a, b) == IF a >= b THEN a ELSE b
Min(a, b) == IF a <= b THEN a ELSE b

Threads == 0..Max(MaxClients, MaxCpu)
Clients == 0..MaxClients
Subs == 1..MaxSubs

VARIABLES
    \* ProgressTracker fields
    total, current, current_file, callbacks, lock,
    batch_size, update_interval, last_notify_time,
    \* time.perf_counter(): the latest reading
    now,
    \* threading.local(): per-thread pending counter and last file
    counter, last_file,
    \* per-thread control: position, return position of the tracker call in
    \* progress, locals of _flush_updates / _notify_callbacks_unsafe
    pc, ret, fl,
    \* what each subscriber has been invoked with
    calls, lastSeen, regressed,
    \* bookkeeping of set_total epochs
    epoch, incCalls, cleanEpoch,
    \* the job: number of kept files, os.cpu_count(), the files whose
    \* strategy raises, the files whose source or target path is refused by
    \* _validate_path_security
    nFiles, cpu_count, failing, insecure,
    \* WorkerPool: _stop_event, len(_workers), threads joined so far, and per
    \* worker the number of files of its batch it has gone through
    stop_event, workers, joined, pos,
    \* whether stop() has been called on the pool
    stopped,
    \* what collect() returned
    result,
    \* FileFilter: _cache; and about the calls made so far: the (path, pattern,
    \* kind) that stored each entry, the last call and what it returned,
    \* whether some match() returned a value other than the uncached one,
    \* whether some match() returned an entry stored for another triple
    cache, owner, lastCall, mismatch, foreignHit,
    \* path_sanitizer: the last call of resolve_path and its outcome
    rpCall,
    \* the file system; FileOperations: _strategy, _audit_logger; the records
    \* the audit logger has been handed; the last call of execute_operation;
    \* the number of calls on the object so far
    fs, strategy, audit_logger, audit, opCall, nOps,
    \* CollectionConfig: collect_system_info, create_archive; the files the
    \* archiver has written; the collaborators of collect() that have raised
    collect_system_info, create_archive, archived, failed,
    \* collect(): CollectionConfig.source_paths and target_path, the kept
    \* files, the source base it computed, and the target path the workers
    \* computed for each kept file
    source_paths, target_base, filtered_files, source_base, target_path,
    \* api.routes: job_repository._jobs, active_services, the job ids given
    \* out so far, the position of each job's background thread and of each
    \* DELETE handler; the jobs a DELETE has answered 200 for, the update_job
    \* calls that came after that, and the last response sent
    jobs, active_services, created, bg, handler, cancelled, lateUpdates, response,
    \* RateLimiter: _max_requests, _window_seconds, _requests; time.time();
    \* every request allowed so far, per key; the last call of is_allowed
    max_requests, window_seconds, requests, wall, allowed, answer

trk == <<total, current, current_file, callbacks, lock,
         batch_size, update_interval, last_notify_time>>
tls == <<counter, last_file>>
ctl == <<pc, ret, fl>>
obs == <<calls, lastSeen, regressed>>
eph == <<epoch, incCalls, cleanEpoch>>
flt == <<cache, owner, lastCall, mismatch, foreignHit>>
san == <<rpCall>>
fio == <<fs, strategy, audit_logger, audit, opCall, nOps>>
tail == <<collect_system_info, create_archive, archived, failed>>
lay == <<source_paths, target_base, filtered_files, source_base, target_path>>
api == <<jobs, active_services, created, bg, handler, cancelled, lateUpdates, response>>
rl == <<max_requests, window_seconds, requests, wall, allowed, answer>>
\* what the tracker and the pool leave alone: the job and the other components
job == <<nFiles, cpu_count, failing, insecure, flt, san, fio, tail, lay, api, rl, stopped>>
pool == <<stop_event, workers, joined, pos, result>>
\* what the other components leave alone
engine == <<trk, now, tls, ctl, obs, eph, pool, nFiles, cpu_count, failing, insecure,
           tail, lay, api, rl, stopped>>
\* what the API leaves alone
collector == <<trk, now, tls, ctl, obs, eph, pool, nFiles, cpu_count, failing, insecure,
              tail, lay, flt, san, fio, stopped>>
vars == <<trk, now, tls, ctl, obs, eph, job, pool>>

\* ---- ProgressTracker: pure parts ----

\* a bug: 1000 files still get the batch size of a medium load
BatchSizeForInclusive(n) ==
    IF n <= 10 THEN 1
    ELSE IF n <= 100 THEN 10
    ELSE IF n <= 1000 THEN 300
    ELSE 500

\* set_total: adaptive batch size
BatchSizeFor(n) ==
    IF n <= 10 THEN 1
    ELSE IF n <= 100 THEN 10
    ELSE IF n < 1000 THEN 300
    ELSE 500

\* set_total: adaptive update interval, in ticks of 0.01 s
IntervalFor(n) ==
    IF n <= 10 THEN 1
    ELSE IF n <= 100 THEN 10
    ELSE 50

\* a bug: the percentage is not capped
CalculatePercentageUnclamped(cur, tot) ==
    IF tot = 0 THEN 0 ELSE (cur * 100 * PctScale) \div tot

\* _calculate_percentage_unsafe, as a fixed-point number
CalculatePercentage(cur, tot) ==
    IF tot = 0 THEN 0
    ELSE Min((cur * 100 * PctScale) \div tot, 100 * PctScale)

\* a bug: the first notification after set_total waits for the interval too
ShouldNotifyWithoutFirst(lnt, ct, interval, tot) ==
    ct - lnt >= interval \/ (tot > 0 /\ tot <= 10)

\* a bug: the throttle looks at the clock only, also for tiny loads
ShouldNotifyByTimeOnly(lnt, ct, interval, tot) ==
    lnt = 0 \/ ct - lnt >= interval

\* _flush_updates: the throttle decision taken under the lock
ShouldNotify(lnt, ct, interval, tot) ==
    LET should_notify_by_time == lnt = 0 \/ ct - lnt >= interval
    IN  should_notify_by_time \/ (tot > 0 /\ tot <= 10)

\* a bug: the shared counter is overwritten instead of added to
MergeCountOverwrites(cur, local_count) == local_count

\* _flush_updates: self._current += local_count
MergeCount(cur, local_count) == cur + local_count

\* a bug: the callbacks are dispatched inside the `with self._lock` block
LockKeptAfterFlush(t) == t

\* _flush_updates: the lock's owner when the `with self._lock` block is left
LockAfterFlush(t) == Unlocked

\* locals of a thread that is not (and was not) flushing
NoFlush ==
    [count |-> 0, file |-> None, notify |-> FALSE, cbs |-> <<>>,
     cur |-> 0, tot |-> 0, cfile |-> None, idx |-> 0, ep |-> 0,
     invoked |-> <<>>, raised |-> <<>>, exc |-> FALSE]

\* a bug: the callback's exception leaves the loop and reaches the caller
CallbackExceptionPropagates(f) ==
    [f EXCEPT !.idx = Len(f.cbs) + 1, !.raised = Append(@, f.cbs[f.idx]),
              !.exc = TRUE]

\* _notify_callbacks_unsafe: `except Exception: pass`, the loop goes on
OnCallbackException(f) ==
    [f EXCEPT !.idx = @ + 1, !.raised = Append(@, f.cbs[f.idx])]

FlushPcs == {"flush_wait", "flush_locked", "notify", "in_cb"}

InSeq(x, s) == \E i \in 1..Len(s) : s[i] = x
Remove(x, s) == SelectSeq(s, LAMBDA y : y # x)

\* ---- ProgressTracker: operations ----

\* _flush_updates up to the lock: snapshot and clear the thread-local state.
\* cnt and file are the thread-local values on entry; r is where the caller
\* goes on when the call returns.
EnterFlush(t, cnt, file, r) ==
    IF cnt = 0
    THEN /\ counter' = [counter EXCEPT ![t] = cnt]
         /\ last_file' = [last_file EXCEPT ![t] = file]
         /\ pc' = [pc EXCEPT ![t] = r]
         /\ UNCHANGED <<ret, fl>>
    ELSE /\ counter' = [counter EXCEPT ![t] = 0]
         /\ last_file' = [last_file EXCEPT ![t] = None]
         /\ fl' = [fl EXCEPT ![t] = [NoFlush EXCEPT !.count = cnt, !.file = file]]
         /\ pc' = [pc EXCEPT ![t] = "flush_wait"]
         /\ ret' = [ret EXCEPT ![t] = r]

\* increment(current_file): thread-local fast path, flush when the batch is full
Increment(t, file, r) ==
    LET cnt == counter[t] + 1
        lf == IF file # None THEN file ELSE last_file[t]
    IN  /\ incCalls' = incCalls + 1
        /\ IF cnt >= batch_size
           THEN EnterFlush(t, cnt, lf, r)
           ELSE /\ counter' = [counter EXCEPT ![t] = cnt]
                /\ last_file' = [last_file EXCEPT ![t] = lf]
                /\ pc' = [pc EXCEPT ![t] = r]
                /\ UNCHANGED <<ret, fl>>
        /\ UNCHANGED <<trk, now, obs, epoch, cleanEpoch, job>>

\* flush(): _flush_updates called directly
Flush(t, r) ==
    /\ EnterFlush(t, counter[t], last_file[t], r)
    /\ UNCHANGED <<trk, now, obs, eph, job, pool>>

\* _flush_updates: `with self._lock:` entered
FlushAcquire(t) ==
    /\ pc[t] = "flush_wait"
    /\ lock = Unlocked
    /\ lock' = t
    /\ pc' = [pc EXCEPT ![t] = "flush_locked"]
    /\ UNCHANGED <<total, current, current_file, callbacks, batch_size,
                   update_interval, last_notify_time, now, tls, ret, fl, obs, eph, job, pool>>

\* _flush_updates: the body of the `with self._lock:` block and its exit
FlushCritical(t) ==
    /\ pc[t] = "flush_locked"
    /\ lock = t
    /\ \E d \in {0, update_interval} :
         LET current_time == now + d
             cur == MergeCount(current, fl[t].count)
             cf == IF fl[t].file # None THEN fl[t].file ELSE current_file
             should_notify ==
                 ShouldNotify(last_notify_time, current_time, update_interval, total)
             cbs == IF should_notify THEN callbacks ELSE <<>>
         IN  /\ current_time <= 1 + MaxElapsed * update_interval
             /\ now' = current_time
             /\ current' = cur
             /\ current_file' = cf
             /\ last_notify_time' =
                    IF should_notify THEN current_time ELSE last_notify_time
             /\ IF should_notify /\ cbs # <<>>
                THEN /\ pc' = [pc EXCEPT ![t] = "notify"]
                     /\ fl' = [fl EXCEPT ![t] =
                            [@ EXCEPT !.notify = should_notify, !.cbs = cbs,
                                      !.cur = cur, !.tot = total, !.cfile = cf,
                                      !.idx = 1, !.ep = epoch]]
                ELSE /\ pc' = [pc EXCEPT ![t] = ret[t]]
                     /\ fl' = [fl EXCEPT ![t] = NoFlush]
    /\ lock' = LockAfterFlush(t)
    /\ UNCHANGED <<total, callbacks, batch_size, update_interval, tls, ret, obs, eph, job, pool>>

\* what subscriber s records when it is invoked with the values of f
Observe(s, f) ==
    LET pct == CalculatePercentage(f.cur, f.tot)
        seen == lastSeen[s]
        same == seen # <<>> /\ seen[1] = f.ep
    IN  /\ calls' = [calls EXCEPT ![s] = @ + 1]
        /\ lastSeen' = [lastSeen EXCEPT ![s] = <<f.ep, f.cur, pct, f.tot>>]
        /\ regressed' = (regressed \/ (same /\ (f.cur < seen[2] \/ pct < seen[3])))

\* _notify_callbacks_unsafe: one iteration of `for callback in callbacks`.
\* The callback returns, raises, or first calls back into the tracker.
NotifyReturn(t) ==
    /\ pc[t] = "notify"
    /\ fl[t].idx <= Len(fl[t].cbs)
    /\ Observe(fl[t].cbs[fl[t].idx], fl[t])
    /\ fl' = [fl EXCEPT ![t] =
           [@ EXCEPT !.idx = @ + 1, !.invoked = Append(@, fl[t].cbs[fl[t].idx])]]
    /\ UNCHANGED <<trk, now, tls, pc, ret, eph, job, pool>>

NotifyRaise(t) ==
    /\ pc[t] = "notify"
    /\ fl[t].idx <= Len(fl[t].cbs)
    /\ Observe(fl[t].cbs[fl[t].idx], fl[t])
    /\ fl' = [fl EXCEPT ![t] =
           OnCallbackException([@ EXCEPT !.invoked = Append(@, fl[t].cbs[fl[t].idx])])]
    /\ UNCHANGED <<trk, now, tls, pc, ret, eph, job, pool>>

NotifyEnter(t) ==
    /\ pc[t] = "notify"
    /\ fl[t].idx <= Len(fl[t].cbs)
    /\ Observe(fl[t].cbs[fl[t].idx], fl[t])
    /\ fl' = [fl EXCEPT ![t] =
           [@ EXCEPT !.invoked = Append(@, fl[t].cbs[fl[t].idx])]]
    /\ pc' = [pc EXCEPT ![t] = "in_cb"]
    /\ UNCHANGED <<trk, now, tls, ret, eph, job, pool>>

\* the running callback calls get_current() / get_total(): `with self._lock`
CallbackReads(t) ==
    /\ pc[t] = "in_cb"
    /\ lock = Unlocked
    /\ fl' = [fl EXCEPT ![t] = [@ EXCEPT !.idx = @ + 1]]
    /\ pc' = [pc EXCEPT ![t] = "notify"]
    /\ UNCHANGED <<trk, now, tls, ret, obs, eph, job, pool>>

\* a bug: subscribe appends without looking
SubscribedAgain(s) == Append(callbacks, s)

\* subscribe(callback) / unsubscribe(callback): the body under the lock
Subscribed(s) == IF InSeq(s, callbacks) THEN callbacks ELSE Append(callbacks, s)
Unsubscribed(s) == IF InSeq(s, callbacks) THEN Remove(s, callbacks) ELSE callbacks

\* the running callback calls subscribe(s) or unsubscribe(s)
CallbackSubscribes(t, s) ==
    /\ pc[t] = "in_cb"
    /\ lock = Unlocked
    /\ callbacks' = Subscribed(s)
    /\ fl' = [fl EXCEPT ![t] = [@ EXCEPT !.idx = @ + 1]]
    /\ pc' = [pc EXCEPT ![t] = "notify"]
    /\ UNCHANGED <<total, current, current_file, lock, batch_size, update_interval,
                   last_notify_time, now, tls, ret, obs, eph, job, pool>>

CallbackUnsubscribes(t, s) ==
    /\ pc[t] = "in_cb"
    /\ lock = Unlocked
    /\ callbacks' = Unsubscribed(s)
    /\ fl' = [fl EXCEPT ![t] = [@ EXCEPT !.idx = @ + 1]]
    /\ pc' = [pc EXCEPT ![t] = "notify"]
    /\ UNCHANGED <<total, current, current_file, lock, batch_size, update_interval,
                   last_notify_time, now, tls, ret, obs, eph, job, pool>>

\* _notify_callbacks_unsafe returns (the loop is over, or an exception left it)
NotifyDone(t) ==
    /\ pc[t] = "notify"
    /\ fl[t].idx > Len(fl[t].cbs)
    /\ pc' = [pc EXCEPT ![t] = ret[t]]
    /\ fl' = [fl EXCEPT ![t] = NoFlush]
    /\ UNCHANGED <<trk, now, tls, ret, obs, eph, job, pool>>

\* the steps inside a tracker call, common to every thread
TrackerStep(t) ==
    \/ FlushAcquire(t)
    \/ FlushCritical(t)
    \/ NotifyReturn(t)
    \/ NotifyRaise(t)
    \/ NotifyEnter(t)
    \/ CallbackReads(t)
    \/ CallbackSubscribes(t, fl[t].cbs[fl[t].idx])
    \/ NotifyDone(t)

\* set_total(n): the unlocked writes of batch size and interval; r is where
\* the caller goes on when the call returns
SetTotalStart(t, n, r) ==
    /\ batch_size' = BatchSizeFor(n)
    /\ update_interval' = IntervalFor(n)
    /\ fl' = [fl EXCEPT ![t] = [NoFlush EXCEPT !.tot = n]]
    /\ pc' = [pc EXCEPT ![t] = "set_total"]
    /\ ret' = [ret EXCEPT ![t] = r]
    /\ UNCHANGED <<total, current, current_file, callbacks, lock, last_notify_time,
                   now, tls, obs, eph, job>>

\* set_total(n): the locked reset, then the caller's thread-local reset
SetTotalReset(t) ==
    /\ pc[t] = "set_total"
    /\ lock = Unlocked
    /\ total' = fl[t].tot
    /\ current' = 0
    /\ current_file' = None
    /\ last_notify_time' = 0
    /\ counter' = [counter EXCEPT ![t] = 0]
    /\ epoch' = epoch + 1
    /\ incCalls' = 0
    /\ cleanEpoch' = \A u \in Threads \ {t} :
                        counter[u] = 0 /\ pc[u] \notin {"flush_wait", "flush_locked"}
    /\ pc' = [pc EXCEPT ![t] = ret[t]]
    /\ fl' = [fl EXCEPT ![t] = NoFlush]
    /\ UNCHANGED <<callbacks, lock, batch_size, update_interval, now, last_file,
                   ret, obs, job, pool>>

\* ---- one tracker used by client threads ----
\* Thread 0 subscribes and calls set_total(n); then every client thread calls
\* increment() some number of times and ends, with or without a last flush().

\* arguments of set_total: none, tiny loads (batch size 1), a small load
\* (batch size 10)
CounterTotals == {0, 1, 2, 11}
\* tiny loads: every flush notifies
NotifyTotals == {1, 2}

ClientSubscribe(t, s) ==
    /\ pc[t] = "idle"
    /\ epoch = 0
    /\ lock = Unlocked
    /\ s = Len(callbacks) + 1
    /\ callbacks' = Subscribed(s)
    /\ UNCHANGED <<total, current, current_file, lock, batch_size, update_interval,
                   last_notify_time, now, tls, ctl, obs, eph, job, pool>>

ClientSetTotal(t, n) ==
    /\ pc[t] = "idle"
    /\ epoch = 0
    /\ SetTotalStart(t, n, "idle")
    /\ UNCHANGED pool

ClientIncrement(t) ==
    /\ pc[t] = "idle"
    /\ epoch > 0
    /\ incCalls < total
    /\ Increment(t, IF counter[t] % 2 = 0 THEN t + 1 ELSE None, "idle")
    /\ UNCHANGED pool

ClientFlush(t) ==
    /\ pc[t] = "idle"
    /\ epoch > 0
    /\ Flush(t, "done")

ClientExit(t) ==
    /\ pc[t] = "idle"
    /\ epoch > 0
    /\ pc' = [pc EXCEPT ![t] = "done"]
    /\ UNCHANGED <<trk, now, tls, ret, fl, obs, eph, job, pool>>

\* __init__, but for batch size and interval; and the other components idle
TrackerFields ==
    /\ total = 0
    /\ stopped = FALSE
    /\ current = 0
    /\ current_file = None
    /\ callbacks = <<>>
    /\ lock = Unlocked
    /\ last_notify_time = 0
    /\ now = 1
    /\ counter = [t \in Threads |-> 0]
    /\ last_file = [t \in Threads |-> None]
    /\ ret = [t \in Threads |-> "idle"]
    /\ fl = [t \in Threads |-> NoFlush]
    /\ calls = [s \in Subs |-> 0]
    /\ lastSeen = [s \in Subs |-> <<>>]
    /\ regressed = FALSE
    /\ epoch = 0
    /\ incCalls = 0
    /\ cleanEpoch = TRUE
    /\ stop_event = FALSE
    /\ workers = 0
    /\ joined = 0
    /\ pos = [t \in Threads |-> 0]
    /\ result = <<>>
    /\ cache = <<>>
    /\ owner = <<>>
    /\ lastCall = <<>>
    /\ mismatch = FALSE
    /\ foreignHit = FALSE
    /\ rpCall = <<>>

\* __init__: batch_size None (here <<>>) gives 300, <<b>> gives max(1, b)
InitialBatchSize(arg) == IF arg = <<>> THEN 300 ELSE Max(1, arg[1])
\* __init__: max(0.01, update_interval_sec), in ticks of 0.01 s
InitialInterval(ticks) == Max(1, ticks)

\* ProgressTracker(): the default arguments
TrackerInit ==
    /\ batch_size = InitialBatchSize(<<>>)
    /\ update_interval = InitialInterval(50)
    /\ TrackerFields

\* no job, and no thread in the tracker
IdleJob ==
    /\ pc = [t \in Threads |-> "idle"]
    /\ nFiles = 0
    /\ cpu_count = 1
    /\ failing = {}
    /\ insecure = {}

\* FileOperations(CopyStrategy()) over an empty directory
NoFileOps ==
    /\ fs = [files |-> <<>>, dirs |-> {}]
    /\ strategy = "copy"
    /\ audit_logger = "None"
    /\ audit = <<>>
    /\ opCall = <<>>
    /\ nOps = 0

\* a configuration without system information and without archive
NoTail ==
    /\ collect_system_info = FALSE
    /\ create_archive = FALSE
    /\ archived = 0
    /\ failed = {}

\* api: no job was ever posted
NoJobs ==
    /\ jobs = <<>>
    /\ active_services = {}
    /\ created = 0
    /\ bg = <<>>
    /\ handler = <<>>
    /\ cancelled = {}
    /\ lateUpdates = 0
    /\ response = <<>>

\* api.main: rate_limiter = RateLimiter(max_requests=100, window_seconds=60)
MainMaxRequests == 100
MainWindowSeconds == 60

\* api: the limiter has seen no request
NoRequests ==
    /\ max_requests = MainMaxRequests
    /\ window_seconds = MainWindowSeconds
    /\ requests = <<>>
    /\ wall = 0
    /\ allowed = <<>>
    /\ answer = <<>>

NoService == NoJobs /\ NoRequests

NoLayout ==
    /\ source_paths = <<>>
    /\ target_base = <<>>
    /\ filtered_files = {}
    /\ source_base = <<>>
    /\ target_path = <<>>

TInit ==
    /\ TrackerInit
    /\ IdleJob
    /\ NoFileOps
    /\ NoTail
    /\ NoLayout
    /\ NoService

\* counting: no subscribers
CounterNext ==
    \/ \E n \in CounterTotals : ClientSetTotal(0, n)
    \/ SetTotalReset(0)
    \/ \E t \in Clients : ClientIncrement(t)
    \/ \E t \in Clients : ClientFlush(t)
    \/ \E t \in Clients : ClientExit(t)
    \/ \E t \in Clients : FlushAcquire(t)
    \/ \E t \in Clients : FlushCritical(t)

CounterSpec == TInit /\ [][CounterNext]_vars

\* notification: subscribers, tiny loads
NotifyNext ==
    \/ \E s \in Subs : ClientSubscribe(0, s)
    \/ \E n \in NotifyTotals : ClientSetTotal(0, n)
    \/ SetTotalReset(0)
    \/ \E t \in Clients : ClientIncrement(t)
    \/ \E t \in Clients : TrackerStep(t)
    \/ \E t \in Clients : CallbackUnsubscribes(t, fl[t].cbs[fl[t].idx])

NotifySpec == TInit /\ [][NotifyNext]_vars

\* ---- set_total on trackers constructed with any arguments ----

MaxSetTotals == 2    \* calls of set_total on one tracker

\* ProgressTracker(batch_size, update_interval_sec): None, 0 and 7 as batch
\* size; 0 s, 0.5 s and 2 s as interval
BatchArgs == {<<>>, <<0>>, <<7>>}
IntervalArgs == {0, 50, 200}
\* both sides of every boundary of the table of set_total
TableTotals == {0, 1, 10, 11, 100, 101, 999, 1000, 10000}

TableInit ==
    /\ batch_size \in {InitialBatchSize(a) : a \in BatchArgs}
    /\ update_interval \in {InitialInterval(i) : i \in IntervalArgs}
    /\ TrackerFields
    /\ IdleJob
    /\ NoFileOps
    /\ NoTail
    /\ NoLayout
    /\ NoService

\* set_total(n), once more on a tracker that has a total
SetTotalCall(n) ==
    /\ pc[0] = "idle"
    /\ epoch < MaxSetTotals
    /\ SetTotalStart(0, n, "idle")
    /\ UNCHANGED pool

TableNext ==
    \/ \E n \in TableTotals : SetTotalCall(n)
    \/ SetTotalReset(0)

TableSpec == TableInit /\ [][TableNext]_vars

\* ---- one thread using the whole interface of the tracker ----
\* Thread 0 subscribes and unsubscribes at any moment, calls set_total once,
\* increments and flushes, before and after set_total.

MaxIncs == 2         \* calls of increment() between two resets

\* no files, a tiny load, a small load
ApiTotals == {0, 1, 11}

\* subscribe(callback)
ApiSubscribe(s) ==
    /\ pc[0] = "idle"
    /\ lock = Unlocked
    /\ callbacks' = Subscribed(s)
    /\ UNCHANGED <<total, current, current_file, lock, batch_size, update_interval,
                   last_notify_time, now, tls, ctl, obs, eph, job, pool>>

\* unsubscribe(callback)
ApiUnsubscribe(s) ==
    /\ pc[0] = "idle"
    /\ lock = Unlocked
    /\ callbacks' = Unsubscribed(s)
    /\ UNCHANGED <<total, current, current_file, lock, batch_size, update_interval,
                   last_notify_time, now, tls, ctl, obs, eph, job, pool>>

\* increment()
ApiIncrement ==
    /\ pc[0] = "idle"
    /\ incCalls < MaxIncs
    /\ Increment(0, None, "idle")
    /\ UNCHANGED pool

\* flush()
ApiFlush ==
    /\ pc[0] = "idle"
    /\ Flush(0, "idle")

ApiNext ==
    \/ \E s \in Subs : ApiSubscribe(s)
    \/ \E s \in Subs : ApiUnsubscribe(s)
    \/ \E n \in ApiTotals : ClientSetTotal(0, n)
    \/ SetTotalReset(0)
    \/ ApiIncrement
    \/ ApiFlush
    \/ FlushAcquire(0)
    \/ FlushCritical(0)
    \/ NotifyReturn(0)
    \/ NotifyDone(0)

ApiSpec == TInit /\ [][ApiNext]_vars

\* ---- set_total and reset while other threads use the tracker ----
\* Thread 0 calls set_total and reset; every client thread increments and
\* flushes, before and after.

\* reset(): the fields under the lock, then the caller's thread-local state
Reset ==
    /\ pc[0] = "idle"
    /\ lock = Unlocked
    /\ epoch < MaxSetTotals
    /\ total' = 0
    /\ current' = 0
    /\ current_file' = None
    /\ last_notify_time' = now
    /\ counter' = [counter EXCEPT ![0] = 0]
    /\ last_file' = [last_file EXCEPT ![0] = None]
    /\ epoch' = epoch + 1
    /\ incCalls' = 0
    /\ cleanEpoch' = \A u \in Threads \ {0} :
                        counter[u] = 0 /\ pc[u] \notin {"flush_wait", "flush_locked"}
    /\ UNCHANGED <<callbacks, lock, batch_size, update_interval, now, ctl, obs, job, pool>>

\* increment() by any client thread; a call that overlaps set_total is
\* neither before nor after it and is left out
AnyIncrement(t) ==
    /\ pc[t] = "idle"
    /\ pc[0] # "set_total"
    /\ incCalls < MaxIncs
    /\ Increment(t, None, "idle")
    /\ UNCHANGED pool

\* flush() by any client thread
AnyFlush(t) ==
    /\ pc[t] = "idle"
    /\ Flush(t, "idle")

ResetNext ==
    \/ \E n \in ApiTotals : SetTotalCall(n)
    \/ SetTotalReset(0)
    \/ Reset
    \/ \E t \in Clients : AnyIncrement(t)
    \/ \E t \in Clients : AnyFlush(t)
    \/ \E t \in Clients : FlushAcquire(t)
    \/ \E t \in Clients : FlushCritical(t)

ResetSpec == TInit /\ [][ResetNext]_vars

\* ---- unsubscribe while other threads flush ----

\* thread 0 subscribes, sets the total and unsubscribes at any moment; every
\* client thread increments, and flushes when its batch is full
UnsubNext ==
    \/ \E s \in Subs : ClientSubscribe(0, s)
    \/ \E n \in NotifyTotals : ClientSetTotal(0, n)
    \/ SetTotalReset(0)
    \/ \E s \in Subs : ApiUnsubscribe(s)
    \/ \E t \in Clients : ClientIncrement(t)
    \/ \E t \in Clients : FlushAcquire(t)
    \/ \E t \in Clients : FlushCritical(t)
    \/ \E t \in Clients : NotifyReturn(t)
    \/ \E t \in Clients : NotifyDone(t)

UnsubSpec == TInit /\ [][UnsubNext]_vars

\* ---- WorkerPool and CollectionService.collect ----

\* worker_pool.MAX_WORKERS
MAX_WORKERS == 32

\* a bug: the files per worker are rounded up
CalculateOptimalWorkersRoundedUp(total_files, cpu) ==
    Min(Min(cpu, Max(1, (total_files + 99) \div 100)), MAX_WORKERS)

\* _calculate_optimal_workers, with os.cpu_count() = cpu
CalculateOptimalWorkers(total_files, cpu) ==
    Min(Min(cpu, Max(1, total_files \div 100)), MAX_WORKERS)

\* a bug: an empty list makes one empty batch
CreateBatchesNeverEmpty(len, num_workers) ==
    IF num_workers = 0 THEN <<>>
    ELSE LET bsz == Max(1, len \div num_workers)
             cnt == Max(1, (len + bsz - 1) \div bsz)
         IN  [k \in 1..cnt |-> <<(k - 1) * bsz, Min(k * bsz, len)>>]

\* _create_batches on a list of len files: the slices [lo, hi) of the list, in
\* order (range(0, len, batch_size) and filepaths[i : i + batch_size])
CreateBatches(len, num_workers) ==
    IF len = 0 \/ num_workers = 0 THEN <<>>
    ELSE LET bsz == Max(1, len \div num_workers)
             cnt == (len + bsz - 1) \div bsz
         IN  [k \in 1..cnt |-> <<(k - 1) * bsz, Min(k * bsz, len)>>]

Batches == CreateBatches(nFiles, CalculateOptimalWorkers(nFiles, cpu_count))

\* execute: self._num_workers = min(len(batches), num_workers)
NumWorkers == Min(Len(Batches), CalculateOptimalWorkers(nFiles, cpu_count))

\* the i-th file (1-based) of worker w's batch, and the batch's length
BatchFile(w, i) == Batches[w][1] + i
BatchLen(w) == Batches[w][2] - Batches[w][1]

\* a bug: the worker never looks at the cancellation flag
StopIgnored(w) == FALSE

\* _worker_loop: `if self._stop_event.is_set(): break`
StopObserved(w) == stop_event

\* a bug: join gives up waiting, as join(timeout=...) does
JoinTimesOut(w) == TRUE

\* execute: thread.join() returns
JoinReturns(w) == pc[w] = "w_done"

\* the files that went through operations.execute_operation so far
Executions ==
    {e \in (1..MaxCpu) \X (1..nFiles) : e[2] <= pos[e[1]]}
ExecCount(f) == Cardinality({e \in Executions : BatchFile(e[1], e[2]) = f})
\* execute_operation(f) raises: SecurityError from the path checks, or
\* FileOperationError when the strategy raises
Raises(f) == f \in insecure \/ f \in failing
OkCount == Cardinality({e \in Executions : ~Raises(BatchFile(e[1], e[2]))})
FailCount == Cardinality({e \in Executions : Raises(BatchFile(e[1], e[2]))})
\* the calls of execute_operation by workers that raised SecurityError
SecurityErrorsInWorkers == {e \in Executions : BatchFile(e[1], e[2]) \in insecure}

\* a bug: failed_files counts the operations that raised while processed_files
\* still counts every increment
FailedFilesCountsErrors(n, processed_count) == FailCount

\* collect: "failed_files": len(filtered_files) - processed_count
FailedFiles(n, processed_count) == n - processed_count

\* a bug: the exception leaves the loop and ends the worker
WorkerDiesOnError(w) == "w_done"

\* _worker_loop: `except Exception: ... increment(...); continue`
AfterFileError(w) == "w_loop"

\* a bug: with no kept file collect() goes on to its collaborators
AfterNoFilesGoesOn ==
    IF collect_system_info THEN "pc_info"
    ELSE IF create_archive THEN "archive" ELSE "returned"

\* collect(): `if not filtered_files: return {...}`
AfterNoFiles == "returned"

\* collect(), up to the first set_total: no kept file returns the zero result
CollectBegin ==
    /\ pc[0] = "idle"
    /\ result = <<>>
    /\ IF nFiles = 0
       THEN /\ result' = [total_files |-> 0, processed_files |-> 0, failed_files |-> 0]
            /\ pc' = [pc EXCEPT ![0] = AfterNoFiles]
            /\ UNCHANGED <<trk, now, tls, ret, fl, obs, eph, job,
                           stop_event, workers, joined, pos>>
       ELSE /\ SetTotalStart(0, nFiles, "execute")
            /\ UNCHANGED pool

\* execute(), up to its set_total; an empty batch list returns at once
ExecuteBegin ==
    /\ pc[0] = "execute"
    /\ stop_event' = FALSE
    /\ IF Batches = <<>>
       THEN /\ pc' = [pc EXCEPT ![0] = "executed"]
            /\ UNCHANGED <<trk, now, tls, ret, fl, obs, eph, job,
                           workers, joined, pos, result>>
       ELSE /\ SetTotalStart(0, nFiles, "spawn")
            /\ workers' = 0
            /\ joined' = 0
            /\ UNCHANGED <<pos, result>>

\* execute: one iteration of the loop that starts the worker threads
ExecuteSpawn ==
    /\ pc[0] = "spawn"
    /\ IF workers < Len(Batches) /\ workers < NumWorkers
       THEN /\ workers' = workers + 1
            /\ pc' = [pc EXCEPT ![workers + 1] = "w_loop"]
       ELSE /\ pc' = [pc EXCEPT ![0] = "join"]
            /\ UNCHANGED workers
    /\ UNCHANGED <<trk, now, tls, ret, fl, obs, eph, job,
                   stop_event, joined, pos, result>>

\* execute: one iteration of `for thread in self._workers: thread.join()`,
\* then self._workers.clear()
ExecuteJoin ==
    /\ pc[0] = "join"
    /\ IF joined < workers
       THEN /\ JoinReturns(joined + 1)
            /\ joined' = joined + 1
            /\ UNCHANGED <<pc, workers>>
       ELSE /\ workers' = 0
            /\ pc' = [pc EXCEPT ![0] = "executed"]
            /\ UNCHANGED joined
    /\ UNCHANGED <<trk, now, tls, ret, fl, obs, eph, job, stop_event, pos, result>>

\* collect(): what follows the result, and what follows the system information
AfterResult ==
    IF collect_system_info THEN "pc_info"
    ELSE IF create_archive THEN "archive" ELSE "returned"
AfterPcInfo == IF create_archive THEN "archive" ELSE "returned"

\* collect(): get_current(flush=False) and the result
CollectResult ==
    /\ pc[0] = "executed"
    /\ lock = Unlocked
    /\ LET processed_count == current
       IN  result' = [total_files |-> nFiles,
                      processed_files |-> processed_count,
                      failed_files |-> FailedFiles(nFiles, processed_count)]
    /\ pc' = [pc EXCEPT ![0] = AfterResult]
    /\ UNCHANGED <<trk, now, tls, ret, fl, obs, eph, job,
                   stop_event, workers, joined, pos>>

\* a bug: the worker ends without flushing its thread-local count
WorkerExitWithoutFlush(w) ==
    /\ pc' = [pc EXCEPT ![w] = "w_done"]
    /\ UNCHANGED <<trk, now, tls, ret, fl, obs, eph, job, pool>>

\* _worker_loop, after the loop: `if self._progress_tracker: ...flush()`
WorkerExit(w) == Flush(w, "w_done")

\* _worker_loop: one iteration of `for filepath in batch`, or the flush() after
\* the loop. The operation and the thread-local increment that follow the read
\* of the cancellation flag touch nothing another thread reads before the next
\* flush, so the iteration is one step.
WorkerLoop(w) ==
    /\ pc[w] = "w_loop"
    /\ IF pos[w] >= BatchLen(w) \/ StopObserved(w)
       THEN WorkerExit(w)
       ELSE /\ pos' = [pos EXCEPT ![w] = @ + 1]
            /\ Increment(w, BatchFile(w, pos[w] + 1),
                         IF Raises(BatchFile(w, pos[w] + 1))
                         THEN AfterFileError(w) ELSE "w_loop")
            /\ UNCHANGED <<stop_event, workers, joined, result>>

\* stop(): self._stop_event.set(); its bounded joins change nothing
Stop ==
    /\ ~stop_event
    /\ stop_event' = TRUE
    /\ stopped' = TRUE
    /\ UNCHANGED <<trk, now, tls, ctl, obs, eph, nFiles, cpu_count, failing, insecure,
                   flt, san, fio, tail, lay, api, rl, workers, joined, pos, result>>

\* numbers of kept files: none, tiny loads, small loads, loads for two workers
FileCounts == {0, 1, 2, 3, 10, 11, 12, 200, 201}
\* the files whose operation raises (as far as the job has them)
FailingChoices == {{}, {1}}
\* the same for the jobs that may be cancelled
CancelFileCounts == {0, 2, 11, 200}
CancelFailingChoices == {{1}}

\* jobs with a kept file whose path _validate_path_security refuses
SecFileCounts == {1, 2}
SecFailingChoices == {{}, {2}}
InsecureChoices == {{1}}

PoolInit(counts, fails, secs) ==
    /\ TrackerInit
    /\ NoFileOps
    /\ NoLayout
    /\ NoService
    /\ pc = [t \in Threads |-> IF t = 0 THEN "idle" ELSE "w_new"]
    /\ nFiles \in counts
    /\ cpu_count \in 1..MaxCpu
    /\ failing \in {F \cap (1..nFiles) : F \in fails}
    /\ insecure \in {F \cap (1..nFiles) : F \in secs}

Init == PoolInit(FileCounts, FailingChoices, {{}}) /\ NoTail
CancelInit == PoolInit(CancelFileCounts, CancelFailingChoices, {{}}) /\ NoTail
SecInit == PoolInit(SecFileCounts, SecFailingChoices, InsecureChoices) /\ NoTail

\* a job that is never cancelled, with subscribers
Next ==
    \/ \E s \in Subs : ClientSubscribe(0, s)
    \/ CollectBegin
    \/ SetTotalReset(0)
    \/ ExecuteBegin
    \/ ExecuteSpawn
    \/ ExecuteJoin
    \/ CollectResult
    \/ \E w \in 1..MaxCpu : WorkerLoop(w)
    \/ \E t \in Threads : TrackerStep(t)

Spec == Init /\ [][Next]_vars

\* the same job where every thread that can take a step goes on to take it:
\* the main thread and the workers are threads of the operating system, none
\* of which is held back for ever
FinalFileCounts == {1, 10, 11}
FinalInit == PoolInit(FinalFileCounts, {{}}, {{}}) /\ NoTail
FairSpec == FinalInit /\ [][Next]_vars /\ WF_vars(Next)

\* the same for jobs with a refused path
SecSpec == SecInit /\ [][Next]_vars

\* a job that may be cancelled at any moment, without subscribers
CancelNext ==
    \/ CollectBegin
    \/ SetTotalReset(0)
    \/ ExecuteBegin
    \/ ExecuteSpawn
    \/ ExecuteJoin
    \/ CollectResult
    \/ \E w \in 1..MaxCpu : WorkerLoop(w)
    \/ \E w \in 1..MaxCpu : FlushAcquire(w)
    \/ \E w \in 1..MaxCpu : FlushCritical(w)
    \/ Stop

CancelSpec == CancelInit /\ [][CancelNext]_vars

\* ---- WorkerPool.execute called on a new pool and a new tracker ----

\* len(filepaths): none, one worker's loads, loads for two workers
ExecFileCounts == {0, 1, 99, 100, 199, 200, 201}

ExecInit == PoolInit(ExecFileCounts, {{}}, {{}}) /\ NoTail

\* pool.execute(filepaths, source_base, target_base, tracker, operations)
ExecuteCall ==
    /\ pc[0] = "idle"
    /\ pc' = [pc EXCEPT ![0] = "execute"]
    /\ UNCHANGED <<trk, now, tls, ret, fl, obs, eph, job, pool>>

ExecNext ==
    \/ ExecuteCall
    \/ ExecuteBegin
    \/ SetTotalReset(0)
    \/ ExecuteSpawn
    \/ ExecuteJoin
    \/ \E w \in 1..MaxCpu : WorkerLoop(w)
    \/ \E w \in 1..MaxCpu : FlushAcquire(w)
    \/ \E w \in 1..MaxCpu : FlushCritical(w)

ExecSpec == ExecInit /\ [][ExecNext]_vars

\* ---- collect(): the source base, and the target paths of the workers ----
\* A path is the sequence of its components after the root. The tree:
\*   /a/x/f  /a/x/s/t  /a/y/g  /b/k      regular files
\*   /a/x/s/l -> /b/k   /a/y/m -> /a/x/f  symbolic links to files
\*   /t                                   the directory of the targets

MaxKept == 2         \* kept files of a job

TreeFiles == {<<"a", "x", "f">>, <<"a", "x", "s", "t">>, <<"a", "y", "g">>, <<"b", "k">>,
              <<"b", "f">>}
TreeLinks == {<<"a", "x", "s", "l">>, <<"a", "y", "m">>}
\* Path.resolve(): a link is replaced by what it points to
Resolved(p) ==
    IF p = <<"a", "x", "s", "l">> THEN <<"b", "k">>
    ELSE IF p = <<"a", "y", "m">> THEN <<"a", "x", "f">>
    ELSE p
\* Path.is_file() follows links
TreeIsFile(p) == p \in TreeFiles \cup TreeLinks
\* Path.parent, Path.name
TreeParent(p) == SubSeq(p, 1, Len(p) - 1)
Name(p) == p[Len(p)]
\* other is p or one of p.parents
IsRelativeTo(p, other) ==
    Len(other) <= Len(p) /\ SubSeq(p, 1, Len(other)) = other

\* _collect_all_files: a file is taken as it is, a directory gives the files
\* rglob("*") finds below it
CollectAllFiles(paths) ==
    UNION {IF TreeIsFile(paths[i]) THEN {paths[i]}
           ELSE {f \in TreeFiles \cup TreeLinks : IsRelativeTo(f, paths[i])} :
           i \in 1..Len(paths)}

\* a bug: the base is the parent of the first source
FindCommonBaseAbove(filepaths, sources) == TreeParent(Resolved(sources[1]))

\* _find_common_base. The loop over filepaths[:10] computes common_parts,
\* which nothing reads; with one source and with several the function returns
\* the first source, or its parent if it is a file.
FindCommonBase(filepaths, sources) ==
    IF filepaths = {} THEN TreeParent(Resolved(sources[1]))
    ELSE LET base == Resolved(sources[1])
         IN  IF TreeIsFile(base) THEN TreeParent(base) ELSE base

\* a bug: the whole path is joined when the file is outside the base; joining
\* an absolute path gives that path
TargetPathJoinsWhole(filepath, base, target) ==
    IF IsRelativeTo(Resolved(filepath), Resolved(base))
    THEN target \o SubSeq(Resolved(filepath), Len(Resolved(base)) + 1,
                          Len(Resolved(filepath)))
    ELSE filepath

\* _worker_loop: relative_to, Path(filepath.name) on ValueError, and the join
TargetPath(filepath, base, target) ==
    IF IsRelativeTo(Resolved(filepath), Resolved(base))
    THEN target \o SubSeq(Resolved(filepath), Len(Resolved(base)) + 1,
                          Len(Resolved(filepath)))
    ELSE target \o <<Name(filepath)>>

\* CollectionConfig.source_paths: one or two of these
SourceChoices == {<<"a">>, <<"a", "x">>, <<"a", "y">>, <<"a", "x", "f">>, <<"b">>}
TargetBases == {<<"t">>}

LayoutInit ==
    /\ TrackerInit
    /\ IdleJob
    /\ NoFileOps
    /\ NoTail
    /\ NoService
    /\ source_paths \in {<<p>> : p \in SourceChoices}
                         \cup {<<p, q>> : p, q \in SourceChoices}
    /\ target_base \in TargetBases
    /\ filtered_files \in {K \in SUBSET CollectAllFiles(source_paths) :
                               Cardinality(K) >= 1 /\ Cardinality(K) <= MaxKept}
    /\ source_base = <<>>
    /\ target_path = <<>>

\* collect(): source_base = _find_common_base(filtered_files, source_paths)
FindBase ==
    /\ source_base = <<>>
    /\ source_base' = << FindCommonBase(filtered_files, source_paths) >>
    /\ UNCHANGED <<source_paths, target_base, filtered_files, target_path>>
    /\ UNCHANGED <<trk, now, tls, ctl, obs, eph, pool, nFiles, cpu_count, failing,
                   insecure, flt, san, fio, tail, api, rl, stopped>>

\* _worker_loop: the target path of one file
WorkerTarget(f) ==
    /\ source_base # <<>>
    /\ f \in filtered_files
    /\ \A i \in 1..Len(target_path) : target_path[i].file # f
    /\ target_path' = Append(target_path,
                             [file |-> f,
                              target |-> TargetPath(f, source_base[1], target_base)])
    /\ UNCHANGED <<source_paths, target_base, filtered_files, source_base>>
    /\ UNCHANGED <<trk, now, tls, ctl, obs, eph, pool, nFiles, cpu_count, failing,
                   insecure, flt, san, fio, tail, api, rl, stopped>>

LayoutNext ==
    \/ FindBase
    \/ \E f \in TreeFiles \cup TreeLinks : WorkerTarget(f)

LayoutSpec == LayoutInit /\ [][LayoutNext]_vars

\* ---- api.routes: the jobs and their DELETE ----

MaxJobs == 1         \* POST /collect requests
MaxHandlers == 2     \* DELETE requests being handled at a time

JobIds == 1..MaxJobs
Handlers == 1..MaxHandlers

\* a bug: update_job stores the updates of an unknown job
UpdateJobUpserts(js, job_id, updates) ==
    [j \in DOMAIN js \cup {job_id} |->
        IF j = job_id
        THEN [status |-> IF updates.status # "" THEN updates.status
                         ELSE IF j \in DOMAIN js THEN js[j].status ELSE "pending",
              current |-> IF updates.current > 0 THEN updates.current
                          ELSE IF j \in DOMAIN js THEN js[j].current ELSE 0]
        ELSE js[j]]

\* InMemoryJobRepository.update_job: `if job_id in self._jobs: ...update(updates)`
\* (an update leaves out a key by "" or 0)
UpdateJob(js, job_id, updates) ==
    IF job_id \in DOMAIN js
    THEN [js EXCEPT ![job_id] =
             [status |-> IF updates.status # "" THEN updates.status ELSE @.status,
              current |-> IF updates.current > 0 THEN updates.current ELSE @.current]]
    ELSE js

\* InMemoryJobRepository.delete_job
DeleteJob(js, job_id) == [j \in DOMAIN js \ {job_id} |-> js[j]]

\* InMemoryJobRepository.get_job: the record, or None
GetJob(js, job_id) == IF job_id \in DOMAIN js THEN <<js[job_id]>> ELSE <<>>

\* the response of a request for job_id, and whether the request began after a
\* DELETE of that job had answered 200
Respond(kind, job_id, code, late) ==
    response' = [kind |-> kind, job_id |-> job_id, code |-> code, late |-> late]

\* POST /collect: create_job (a new uuid4), then CollectionService(config),
\* whose validate_config raises for a configuration that is not valid; the
\* service is registered and the background thread started otherwise
CollectFiles(valid) ==
    /\ created < MaxJobs
    /\ LET job_id == created + 1
       IN  /\ created' = job_id
           /\ jobs' = [j \in DOMAIN jobs \cup {job_id} |->
                          IF j = job_id THEN [status |-> "pending", current |-> 0]
                          ELSE jobs[j]]
           /\ IF valid
              THEN /\ active_services' = active_services \cup {job_id}
                   /\ bg' = [j \in DOMAIN bg \cup {job_id} |->
                                IF j = job_id THEN "running" ELSE bg[j]]
                   /\ Respond("collect", job_id, 200, FALSE)
              ELSE /\ UNCHANGED <<active_services, bg>>
                   /\ Respond("collect", job_id, 500, FALSE)
    /\ UNCHANGED <<handler, cancelled, lateUpdates>>
    /\ UNCHANGED <<collector, rl>>

\* update_job_progress, the subscriber of the job's tracker
UpdateJobProgress(job_id) ==
    /\ job_id \in DOMAIN bg
    /\ bg[job_id] = "running"
    /\ jobs' = UpdateJob(jobs, job_id, [status |-> "", current |-> 1])
    /\ lateUpdates' = IF job_id \in cancelled THEN Min(lateUpdates + 1, 2) ELSE lateUpdates
    /\ UNCHANGED <<active_services, created, bg, handler, cancelled, response>>
    /\ UNCHANGED <<collector, rl>>

\* run_collection: collect() returned or raised, and the job is updated
RunCollectionEnds(job_id, status) ==
    /\ job_id \in DOMAIN bg
    /\ bg[job_id] = "running"
    /\ jobs' = UpdateJob(jobs, job_id, [status |-> status, current |-> 0])
    /\ lateUpdates' = IF job_id \in cancelled THEN Min(lateUpdates + 1, 2) ELSE lateUpdates
    /\ bg' = [bg EXCEPT ![job_id] = "finally"]
    /\ UNCHANGED <<active_services, created, handler, cancelled, response>>
    /\ UNCHANGED <<collector, rl>>

\* run_collection: `finally: ... del active_services[job_id]`
RunCollectionFinally(job_id) ==
    /\ job_id \in DOMAIN bg
    /\ bg[job_id] = "finally"
    /\ active_services' = active_services \ {job_id}
    /\ bg' = [bg EXCEPT ![job_id] = "done"]
    /\ UNCHANGED <<jobs, created, handler, cancelled, lateUpdates, response>>
    /\ UNCHANGED <<collector, rl>>

\* GET /progress, /result, /status: get_job, then 404 for None; /result
\* answers 202 while the job runs
GetRoute(kind, job_id) ==
    /\ LET found == GetJob(jobs, job_id)
       IN  Respond(kind, job_id,
                   IF found = <<>> THEN 404
                   ELSE IF kind = "result" /\ found[1].status \notin {"completed", "failed", "cancelled"}
                        THEN 202 ELSE 200,
                   job_id \in cancelled)
    /\ UNCHANGED <<jobs, active_services, created, bg, handler, cancelled, lateUpdates>>
    /\ UNCHANGED <<collector, rl>>

\* DELETE /job: get_job, and 404 for None
CancelJobGet(h, job_id) ==
    /\ h \notin DOMAIN handler
    /\ IF GetJob(jobs, job_id) = <<>>
       THEN /\ Respond("delete", job_id, 404, job_id \in cancelled)
            /\ UNCHANGED handler
       ELSE /\ handler' = [k \in DOMAIN handler \cup {h} |->
                              IF k = h THEN [job_id |-> job_id, at |-> "stop",
                                             late |-> job_id \in cancelled]
                              ELSE handler[k]]
            /\ UNCHANGED response
    /\ UNCHANGED <<jobs, active_services, created, bg, cancelled, lateUpdates>>
    /\ UNCHANGED <<collector, rl>>

\* DELETE /job: under active_services_lock, stop the pool and forget the service
CancelJobStop(h) ==
    /\ h \in DOMAIN handler
    /\ handler[h].at = "stop"
    /\ active_services' = active_services \ {handler[h].job_id}
    /\ handler' = [handler EXCEPT ![h].at = "delete"]
    /\ UNCHANGED <<jobs, created, bg, cancelled, lateUpdates, response>>
    /\ UNCHANGED <<collector, rl>>

\* DELETE /job: delete_job, and the answer {"status": "cancelled"}
CancelJobDelete(h) ==
    /\ h \in DOMAIN handler
    /\ handler[h].at = "delete"
    /\ jobs' = DeleteJob(jobs, handler[h].job_id)
    /\ cancelled' = cancelled \cup {handler[h].job_id}
    /\ Respond("delete", handler[h].job_id, 200, handler[h].late)
    /\ handler' = [k \in DOMAIN handler \ {h} |-> handler[k]]
    /\ UNCHANGED <<active_services, created, bg, lateUpdates>>
    /\ UNCHANGED <<collector, rl>>

JobInit == TInit

JobNext ==
    \/ \E valid \in BOOLEAN : CollectFiles(valid)
    \/ \E j \in JobIds : UpdateJobProgress(j)
    \/ \E j \in JobIds, st \in {"completed", "failed"} : RunCollectionEnds(j, st)
    \/ \E j \in JobIds : RunCollectionFinally(j)
    \/ \E kind \in {"progress", "result", "status"}, j \in JobIds : GetRoute(kind, j)
    \/ \E h \in Handlers, j \in JobIds : CancelJobGet(h, j)
    \/ \E h \in Handlers : CancelJobStop(h)
    \/ \E h \in Handlers : CancelJobDelete(h)

JobSpec == JobInit /\ [][JobNext]_vars

\* the same where the thread of every job goes on: collect() returns or
\* raises, and the thread reaches the end of run_collection
JobFairSpec ==
    /\ JobInit
    /\ [][JobNext]_vars
    /\ \A j \in JobIds :
           /\ WF_vars(\E st \in {"completed", "failed"} : RunCollectionEnds(j, st))
           /\ WF_vars(RunCollectionFinally(j))

\* ---- api.rate_limiter ----

MaxWall == 3         \* time.time() ranges over 0..MaxWall

\* request.client.host
Keys == {"a", "b"}
\* RateLimiter(max_requests, window_seconds)
LimiterArgs == {<<1, 1>>, <<1, 2>>, <<2, 2>>}

\* a bug: a request as old as the window still counts
PrunedInclusive(request_times, current_time, window) ==
    SelectSeq(request_times, LAMBDA t : current_time - t <= window)

\* is_allowed: [t for t in request_times if current_time - t < self._window_seconds]
Pruned(request_times, current_time, window) ==
    SelectSeq(request_times, LAMBDA t : current_time - t < window)

LimiterInit ==
    /\ TrackerInit
    /\ IdleJob
    /\ NoFileOps
    /\ NoTail
    /\ NoLayout
    /\ NoJobs
    /\ \E a \in LimiterArgs : max_requests = a[1] /\ window_seconds = a[2]
    /\ requests = [k \in Keys |-> <<>>]
    /\ wall = 0
    /\ allowed = [k \in Keys |-> <<>>]
    /\ answer = <<>>

\* the clock moves on
TimePasses ==
    /\ wall < MaxWall
    /\ wall' = wall + 1
    /\ UNCHANGED <<max_requests, window_seconds, requests, allowed, answer>>
    /\ UNCHANGED <<collector, api>>

\* is_allowed(key)
IsAllowed(key) ==
    /\ LET current_time == wall
           request_times == Pruned(requests[key], current_time, window_seconds)
           ok == Len(request_times) < max_requests
       IN  /\ requests' = [requests EXCEPT ![key] =
                              IF ok THEN Append(request_times, current_time)
                              ELSE request_times]
           /\ allowed' = IF ok THEN [allowed EXCEPT ![key] = Append(@, current_time)]
                         ELSE allowed
           /\ answer' = [key |-> key, at |-> current_time, ok |-> ok]
    /\ UNCHANGED <<max_requests, window_seconds, wall>>
    /\ UNCHANGED <<collector, api>>

LimiterNext ==
    \/ TimePasses
    \/ \E key \in Keys : IsAllowed(key)

LimiterSpec == LimiterInit /\ [][LimiterNext]_vars

\* ---- collect(): system information and archive ----

\* result[key] = value
Put(r, key, value) ==
    [k \in DOMAIN r \cup {key} |-> IF k = key THEN value ELSE r[k]]

\* a bug: the exception of a collaborator leaves collect()
CollaboratorFailurePropagates(next) == "raised"

\* `except Exception:` around each collaborator: collect() goes on
OnCollaboratorFailure(next) == next

\* the files under target_base: those whose operation succeeded and
\* pc_info.json when it was saved
ArchiveFiles ==
    OkCount + (IF "pc_info_collected" \in DOMAIN result /\ result["pc_info_collected"]
               THEN 1 ELSE 0)

\* the `if self._config.collect_system_info:` block; ok is whether
\* PCInfoCollector(), collect_all() and save_to_file() all return
CollectSystemInfo(ok) ==
    /\ pc[0] = "pc_info"
    /\ result' = Put(result, "pc_info_collected", ok)
    /\ failed' = IF ok THEN failed ELSE failed \cup {"pc_info"}
    /\ pc' = [pc EXCEPT ![0] = IF ok THEN AfterPcInfo
                               ELSE OnCollaboratorFailure(AfterPcInfo)]
    /\ UNCHANGED <<trk, now, tls, ret, fl, obs, eph, nFiles, cpu_count, failing,
                   insecure, flt, san, fio, lay, api, rl, stopped,
                   collect_system_info,
                   create_archive,
                   archived, stop_event, workers, joined, pos>>

\* create_archive: one file written to the archive, its callback is next
ArchiveWrite ==
    /\ pc[0] = "archive"
    /\ archived < ArchiveFiles
    /\ archived' = archived + 1
    /\ pc' = [pc EXCEPT ![0] = "archive_cb"]
    /\ UNCHANGED <<trk, now, tls, ret, fl, obs, eph, nFiles, cpu_count, failing,
                   insecure, flt, san, fio, lay, api, rl, stopped,
                   collect_system_info,
                   create_archive,
                   failed, pool>>

\* archive_progress_callback: self._progress_tracker.increment()
ArchiveProgressCallback ==
    /\ pc[0] = "archive_cb"
    /\ Increment(0, None, "archive")
    /\ UNCHANGED pool

\* create_archive raises: no file under target_base, or an error of the
\* import, of the archive library or of the operating system at any file
ArchiveFails ==
    /\ pc[0] = "archive"
    /\ result' = Put(Put(result, "archive_created", FALSE),
                     "archive_error", "ArchiveError")
    /\ failed' = failed \cup {"archive"}
    /\ pc' = [pc EXCEPT ![0] = OnCollaboratorFailure("returned")]
    /\ UNCHANGED <<trk, now, tls, ret, fl, obs, eph, nFiles, cpu_count, failing,
                   insecure, flt, san, fio, lay, api, rl, stopped,
                   collect_system_info,
                   create_archive,
                   archived, stop_event, workers, joined, pos>>

\* create_archive returns: every file is in the archive
ArchiveDone ==
    /\ pc[0] = "archive"
    /\ ArchiveFiles > 0
    /\ archived = ArchiveFiles
    /\ result' = Put(result, "archive_created", TRUE)
    /\ pc' = [pc EXCEPT ![0] = "returned"]
    /\ UNCHANGED <<trk, now, tls, ret, fl, obs, eph, nFiles, cpu_count, failing,
                   insecure, flt, san, fio, lay, api, rl, stopped,
                   collect_system_info,
                   create_archive,
                   archived, failed, stop_event, workers, joined, pos>>

\* jobs with system information or an archive
TailFileCounts == {1, 2}
TailFailingChoices == {{}, {1}, {1, 2}}

TailInit ==
    /\ PoolInit(TailFileCounts, TailFailingChoices, {{}})
    /\ collect_system_info \in BOOLEAN
    /\ create_archive \in BOOLEAN
    /\ archived = 0
    /\ failed = {}

TailNext ==
    \/ Next
    \/ \E ok \in BOOLEAN : CollectSystemInfo(ok)
    \/ ArchiveWrite
    \/ ArchiveProgressCallback
    \/ ArchiveFails
    \/ ArchiveDone

TailSpec == TailInit /\ [][TailNext]_vars

\* the same for jobs whose filter may keep no file
EmptyFileCounts == {0, 1}

EmptyInit ==
    /\ PoolInit(EmptyFileCounts, {{}}, {{}})
    /\ collect_system_info \in BOOLEAN
    /\ create_archive \in BOOLEAN
    /\ archived = 0
    /\ failed = {}

EmptySpec == EmptyInit /\ [][TailNext]_vars

\* ---- FileFilter ----
\* Paths and patterns are sequences of characters.

MaxPaths == 2        \* filter_files: length of the list of paths
MaxPatterns == 2     \* filter_files: length of the list of patterns

\* fnmatch.fnmatch(name, pattern): `*` is any run of characters, `?` any one
RECURSIVE GlobMatch(_, _)
GlobMatch(name, pat) ==
    IF pat = <<>> THEN name = <<>>
    ELSE IF Head(pat) = "*"
         THEN GlobMatch(name, Tail(pat))
              \/ (name # <<>> /\ GlobMatch(Tail(name), pat))
    ELSE IF name = <<>> THEN FALSE
    ELSE (Head(pat) = "?" \/ Head(pat) = Head(name))
         /\ GlobMatch(Tail(name), Tail(pat))

\* re.compile(pattern).search(text) for patterns of literal characters and `.`
RegexSearch(pat, text) ==
    \E i \in 0..(Len(text) - Len(pat)) :
        \A j \in 1..Len(pat) : pat[j] = "." \/ pat[j] = text[i + j]

\* Path.name: what follows the last separator
PathName(path) ==
    LET seps == {i \in 1..Len(path) : path[i] = "/"}
        last == IF seps = {} THEN 0 ELSE CHOOSE i \in seps : \A k \in seps : k <= i
    IN  SubSeq(path, last + 1, Len(path))

\* match without the memo: _match_regex or _match_glob
Evaluate(path, pat, kind) ==
    IF kind = "regex" THEN RegexSearch(pat, path)
    ELSE GlobMatch(PathName(path), pat)

\* match: cache_key = f"{filepath}:{pattern_config.pattern}:{pattern_config.pattern_type}"
CacheKey(path, pat, kind) == path \o <<":">> \o pat \o <<":">> \o <<kind>>

\* match(filepath, pattern_config) on the filter state st = [cache, owner,
\* mismatch, foreignHit]: the state after the call and the value returned
MatchOn(st, path, cfg) ==
    LET key == CacheKey(path, cfg.pattern, cfg.pattern_type)
        triple == <<path, cfg.pattern, cfg.pattern_type>>
        fresh == Evaluate(path, cfg.pattern, cfg.pattern_type)
    IN  IF key \in DOMAIN st.cache
        THEN [st |-> [st EXCEPT !.mismatch = @ \/ (st.cache[key] # fresh),
                                !.foreignHit = @ \/ (st.owner[key] # triple)],
              ret |-> st.cache[key]]
        ELSE [st |-> [st EXCEPT !.cache = (key :> fresh) @@ @,
                                !.owner = (key :> triple) @@ @],
              ret |-> fresh]

\* filter_files: the inner loop `for pattern_config in patterns` from index i,
\* left at the first match
RECURSIVE AnyPattern(_, _, _, _)
AnyPattern(st, path, patterns, i) ==
    IF i > Len(patterns) THEN [st |-> st, ret |-> FALSE]
    ELSE LET m == MatchOn(st, path, patterns[i])
         IN  IF m.ret THEN m ELSE AnyPattern(m.st, path, patterns, i + 1)

\* filter_files: the outer loop `for filepath in filepaths` from index i
RECURSIVE FilterLoop(_, _, _, _, _)
FilterLoop(st, filepaths, patterns, i, filtered) ==
    IF i > Len(filepaths) THEN [st |-> st, ret |-> filtered]
    ELSE LET m == AnyPattern(st, filepaths[i], patterns, 1)
         IN  FilterLoop(m.st, filepaths, patterns, i + 1,
                        IF m.ret THEN Append(filtered, filepaths[i]) ELSE filtered)

FilterState == [cache |-> cache, owner |-> owner,
                mismatch |-> mismatch, foreignHit |-> foreignHit]

SetFilterState(st) ==
    /\ cache' = st.cache
    /\ owner' = st.owner
    /\ mismatch' = st.mismatch
    /\ foreignHit' = st.foreignHit

\* match(filepath, pattern_config)
Match(path, cfg) ==
    LET m == MatchOn(FilterState, path, cfg)
    IN  /\ SetFilterState(m.st)
        /\ lastCall' = [op |-> "match", filepaths |-> <<path>>, patterns |-> <<cfg>>,
                        ret |-> m.ret]
        /\ UNCHANGED <<engine, san, fio>>

\* filter_files(filepaths, patterns)
FilterFiles(filepaths, patterns) ==
    LET m == IF patterns = <<>>
             THEN [st |-> FilterState, ret |-> filepaths]
             ELSE FilterLoop(FilterState, filepaths, patterns, 1, <<>>)
    IN  /\ SetFilterState(m.st)
        /\ lastCall' = [op |-> "filter_files", filepaths |-> filepaths,
                        patterns |-> patterns, ret |-> m.ret]
        /\ UNCHANGED <<engine, san, fio>>

\* invalidate_cache(): self._cache.clear()
InvalidateCache ==
    /\ cache' = <<>>
    /\ owner' = <<>>
    /\ lastCall' = [op |-> "invalidate_cache", filepaths |-> <<>>, patterns |-> <<>>,
                    ret |-> <<>>]
    /\ UNCHANGED <<mismatch, foreignHit, engine, san, fio>>

\* file names with and without a colon
FilterPaths == {<<"a">>, <<"a", ":", "b">>}
\* glob patterns with and without a colon, and a regex
FilterPatterns ==
    {[pattern |-> <<"*", "b">>, pattern_type |-> "glob"],
     [pattern |-> <<"b", ":", "*", "b">>, pattern_type |-> "glob"],
     [pattern |-> <<"b">>, pattern_type |-> "regex"]}

SeqsUpTo(S, n) == UNION {[1..k -> S] : k \in 0..n}

\* FileFilter.__init__: an empty memo
FilterInit == TInit

FilterNext ==
    \/ \E path \in FilterPaths, cfg \in FilterPatterns : Match(path, cfg)
    \/ \E filepaths \in SeqsUpTo(FilterPaths, MaxPaths),
          patterns \in SeqsUpTo(FilterPatterns, MaxPatterns) :
            FilterFiles(filepaths, patterns)
    \/ InvalidateCache

FilterSpec == FilterInit /\ [][FilterNext]_vars

\* ---- path_sanitizer (POSIX paths) ----
\* A path string is a sequence of characters; "NUL" stands for the character
\* \x00. A Path is the sequence of its segments below the root. The file
\* system holds the base directory /b, with a symbolic link /b/l to the
\* directory /o outside it; the working directory is the root.

MaxRelLen == 4       \* resolve_path: length of the relative string
MAX_PATH_LENGTH == 4096

LinkPath == <<<<"b">>, <<"l">>>>
LinkTarget == <<<<"o">>>>

\* get_dangerous_chars() on Linux and macOS
DangerousChars == {"<", ">", "QUOTE", "|", "?", "*", "NUL"}
\* get_reserved_names() on Linux and macOS
ReservedNames == {<<".">>, <<".", ".">>}

RECURSIVE SplitOn(_, _)
SplitOn(str, sep) ==
    IF str = <<>> THEN <<<<>>>>
    ELSE LET rest == SplitOn(Tail(str), sep)
         IN  IF Head(str) = sep THEN <<<<>>>> \o rest
             ELSE <<<<Head(str)>> \o Head(rest)>> \o Tail(rest)

\* Path(str).parts without the root: empty and `.` segments are dropped
Parts(str) ==
    SelectSeq(SplitOn(str, "/"), LAMBDA g : g # <<>> /\ g # <<".">>)

\* os.path.isabs
IsAbs(str) == str # <<>> /\ Head(str) = "/"

\* `sub in str`
Contains(str, sub) ==
    \E i \in 0..(Len(str) - Len(sub)) : SubSeq(str, i + 1, i + Len(sub)) = sub

\* str.replace("\\", "/")
ReplaceBackslashes(str) ==
    [i \in 1..Len(str) |-> IF str[i] = "\\" THEN "/" ELSE str[i]]

HasChar(segs, chars) ==
    \E i \in 1..Len(segs) : \E j \in 1..Len(segs[i]) : segs[i][j] \in chars

\* Path.resolve(): `..` goes up, the symbolic link is followed
RECURSIVE ResolveFrom(_, _)
ResolveFrom(done, todo) ==
    IF todo = <<>> THEN done
    ELSE IF Head(todo) = <<".", ".">>
         THEN ResolveFrom(IF done = <<>> THEN <<>> ELSE SubSeq(done, 1, Len(done) - 1),
                          Tail(todo))
    ELSE IF Append(done, Head(todo)) = LinkPath
         THEN ResolveFrom(LinkTarget, Tail(todo))
    ELSE ResolveFrom(Append(done, Head(todo)), Tail(todo))

\* Path.resolve() of a path with an embedded null byte raises ValueError
ResolveRaises(segs) == HasChar(segs, {"NUL"})

\* sanitize_path(path): raises SecurityError, or returns the absolute
\* normalised Path
SanitizePath(str) ==
    LET Raise(k) == [kind |-> k, path |-> <<>>]
    IN  IF Len(str) > MAX_PATH_LENGTH THEN Raise("SecurityError")
        ELSE IF HasChar(SplitOn(str, "/"), DangerousChars) THEN Raise("SecurityError")
        ELSE IF \E i \in 1..Len(Parts(str)) : Parts(str)[i] \in ReservedNames
             THEN Raise("SecurityError")
        ELSE [kind |-> "path", path |-> Parts(str)]

\* validate_path_traversal(path, base_dir): "True", "False", or it raises
\* "ValueError"
ValidatePathTraversal(path, base_dir) ==
    IF ResolveRaises(path) \/ ResolveRaises(base_dir) THEN "ValueError"
    ELSE IF IsRelativeTo(ResolveFrom(<<>>, path), ResolveFrom(<<>>, base_dir))
         THEN "True" ELSE "False"

\* resolve_path(base, relative): [kind, path], kind one of "path",
\* "SecurityError", "ValueError"
ResolvePathOutcome(base, relative) ==
    LET Raise(k) == [kind |-> k, path |-> <<>>]
        sanitized == SanitizePath(base)
        base_normalized == sanitized.path
        normalized_for_check == ReplaceBackslashes(relative)
        has_backslash == Contains(relative, <<"\\">>)
        checked == has_backslash /\ Contains(normalized_for_check, <<".", ".">>)
        first == IF checked
                 THEN ValidatePathTraversal(base_normalized \o Parts(normalized_for_check),
                                            base_normalized)
                 ELSE "True"
        second == IF ~checked /\ Contains(relative, <<".", ".">>)
                  THEN ValidatePathTraversal(base_normalized \o Parts(relative),
                                             base_normalized)
                  ELSE "True"
        joined_path == base_normalized \o Parts(relative)
        last == ValidatePathTraversal(ResolveFrom(<<>>, joined_path), base_normalized)
    IN  IF sanitized.kind = "SecurityError" THEN Raise("SecurityError")
        ELSE IF IsAbs(relative) THEN Raise("SecurityError")
        ELSE IF first = "ValueError" THEN Raise("ValueError")
        ELSE IF first = "False" THEN Raise("SecurityError")
        ELSE IF second = "ValueError" THEN Raise("ValueError")
        ELSE IF second = "False" THEN Raise("SecurityError")
        ELSE IF ResolveRaises(joined_path) THEN Raise("ValueError")
        ELSE IF last = "ValueError" THEN Raise("ValueError")
        ELSE IF last = "False" THEN Raise("SecurityError")
        ELSE [kind |-> "path", path |-> ResolveFrom(<<>>, joined_path)]

\* resolve_path(base, relative); the function keeps nothing between calls, so
\* one call per behaviour covers it
ResolvePath(base, relative) ==
    /\ rpCall = <<>>
    /\ rpCall' = [base |-> base, relative |-> relative,
                  out |-> ResolvePathOutcome(base, relative)]
    /\ UNCHANGED <<engine, flt, fio>>

\* the base directory, written in three ways, and a base with a `..` segment
PathBases ==
    {<<"/", "b">>, <<"b">>, <<"/", "b", "/">>, <<"/", "b", "/", ".", ".", "/", "b">>}
PathChars == {"a", "l", ".", "/", "\\", "NUL"}

PathInit == TInit

PathNext ==
    \E base \in PathBases, relative \in SeqsUpTo(PathChars, MaxRelLen) :
        ResolvePath(base, relative)

PathSpec == PathInit /\ [][PathNext]_vars

\* ---- file_operations ----
\* A Path is the sequence of its segments; a segment is its first characters
\* and the number of further characters `x` after them. The file system is
\* the working directory: the content of each file name it can hold (Absent:
\* no such file) and the set of its directories.

MaxOps == 2          \* calls on the FileOperations object

Absent == 0
Seg(c) == [text |-> <<c>>, pad |-> 0]
PlainPath(names) == [i \in 1..Len(names) |-> Seg(names[i])]
\* a one-segment path of n characters
LongPath(n) == << [text |-> <<"s">>, pad |-> n - 1] >>

\* the names the file system can hold; the OS refuses any other (a name of
\* thousands of characters)
FsFiles == {PlainPath(<<"s">>), PlainPath(<<"d", "s">>), PlainPath(<<"n", "t">>)}
FsDirs == {PlainPath(<<"d">>), PlainPath(<<"n">>)}

IsFile(f, p) == p \in FsFiles /\ f.files[p] # Absent
IsDir(f, p) == p = <<>> \/ p \in f.dirs
Exists(f, p) == IsFile(f, p) \/ IsDir(f, p)
Parent(p) == SubSeq(p, 1, Len(p) - 1)
Ancestors(p) == {SubSeq(p, 1, k) : k \in 1..(Len(p) - 1)}

\* len(str(path)) of a relative path
RECURSIVE StrLen(_)
StrLen(p) ==
    IF p = <<>> THEN 0
    ELSE Len(Head(p).text) + Head(p).pad
         + (IF Len(p) > 1 THEN 1 + StrLen(Tail(p)) ELSE 0)

\* outcome of a step on the file system: the file system left behind and the
\* exception raised ("" when none)
Done(f) == [fs |-> f, raised |-> ""]
Fail(f, e) == [fs |-> f, raised |-> e]

\* target.parent.mkdir(parents=True, exist_ok=True)
MkdirParents(f, target) ==
    IF \E a \in Ancestors(target) : IsFile(f, a) THEN Fail(f, "FileExistsError")
    ELSE IF ~(Ancestors(target) \subseteq FsDirs) THEN Fail(f, "OSError")
    ELSE Done([f EXCEPT !.dirs = @ \cup Ancestors(target)])

\* shutil.copy2(source, target): into the directory when target is one
Copy2(f, source, target) ==
    LET real == IF IsDir(f, target) THEN Append(target, source[Len(source)])
                ELSE target
    IN  IF IsFile(f, source) /\ real = source THEN Fail(f, "SameFileError")
        ELSE IF ~IsFile(f, source) THEN Fail(f, "FileNotFoundError")
        ELSE IF IsDir(f, real) THEN Fail(f, "IsADirectoryError")
        ELSE IF real \notin FsFiles THEN Fail(f, "OSError")
        ELSE Done([f EXCEPT !.files[real] = f.files[source]])

\* shutil.move(str(source), str(target)): os.rename, into the directory when
\* target is one; renaming a file to itself does nothing
ShutilMove(f, source, target) ==
    LET real == IF IsDir(f, target) THEN Append(target, source[Len(source)])
                ELSE target
    IN  IF IsDir(f, target) /\ Exists(f, real) THEN Fail(f, "Error")
        ELSE IF ~IsFile(f, source) THEN Fail(f, "FileNotFoundError")
        ELSE IF real = source THEN Done(f)
        ELSE IF real \notin FsFiles THEN Fail(f, "OSError")
        ELSE Done([f EXCEPT !.files[real] = f.files[source],
                            !.files[source] = Absent])

\* source.unlink() when source.exists()
UnlinkIfExists(f, source) ==
    IF IsFile(f, source) THEN [f EXCEPT !.files[source] = Absent] ELSE f

Strategies == {"copy", "move", "moveremove"}

\* CopyStrategy.execute, MoveStrategy.execute, MoveRemoveStrategy.execute
Execute(strat, f, source, target) ==
    LET made == MkdirParents(f, target)
        moved == ShutilMove(made.fs, source, target)
    IN  IF made.raised # "" THEN made
        ELSE IF strat = "copy" THEN Copy2(made.fs, source, target)
        ELSE IF strat = "move" THEN moved
        ELSE IF moved.raised # "" THEN moved
        ELSE Done(UnlinkIfExists(moved.fs, source))

\* _validate_path_security(path): TRUE when it raises SecurityError
ValidatePathSecurityRaises(path) ==
    \/ StrLen(path) > MAX_PATH_LENGTH
    \/ \E i \in 1..Len(path) : \E j \in 1..Len(path[i].text) :
           path[i].text[j] \in DangerousChars

ValidationChecksSourceOnly(source, target) ==
    ValidatePathSecurityRaises(source)

\* the check of both paths comes before the strategy
ValidationRefuses(source, target) ==
    ValidatePathSecurityRaises(source) \/ ValidatePathSecurityRaises(target)

\* log_operation / log_error: the record handed to the audit logger
OperationRecord(strat, source, target) ==
    [kind |-> "operation", operation |-> strat, source |-> source, target |-> target]
ErrorRecord(strat, error, source, target) ==
    [kind |-> "error", operation |-> strat, error |-> error,
     source |-> source, target |-> target]

EmittedAlways(logger, log, r) == Append(log, r)

\* `if self._audit_logger:` before each record
Emitted(logger, log, r) == IF logger # "None" THEN Append(log, r) ELSE log

\* execute_operation(source, target) of a FileOperations with the given
\* strategy and audit logger, on file system f with audit records log:
\* the file system and the records left behind, and "ok" or the exception
ExecuteOperationOutcome(strat, logger, f, log, source, target) ==
    LET run == Execute(strat, f, source, target)
        Emit(r) == Emitted(logger, log, r)
    IN  IF ValidationRefuses(source, target)
        THEN [fs |-> f, audit |-> log, out |-> "SecurityError", invoked |-> FALSE]
        ELSE IF run.raised = ""
        THEN [fs |-> run.fs, audit |-> Emit(OperationRecord(strat, source, target)),
              out |-> "ok", invoked |-> TRUE]
        ELSE [fs |-> run.fs,
              audit |-> Emit(ErrorRecord(strat, run.raised, source, target)),
              out |-> "FileOperationError", invoked |-> TRUE]

\* the other value of _audit_logger
OtherLogger(logger) == IF logger = "None" THEN "AuditLogger" ELSE "None"

\* opCall keeps, besides the call and its outcome: the content of the source
\* before, whether the file system changed, the number of records before,
\* the exception of the strategy, and the outcome the same call has with the
\* other value of _audit_logger
ExecuteOperation(source, target) ==
    LET r == ExecuteOperationOutcome(strategy, audit_logger, fs, audit, source, target)
        o == ExecuteOperationOutcome(strategy, OtherLogger(audit_logger), fs, audit,
                                     source, target)
    IN  /\ nOps < MaxOps
        /\ fs' = r.fs
        /\ audit' = r.audit
        /\ opCall' = [strategy |-> strategy, audit_logger |-> audit_logger,
                      source |-> source, target |-> target,
                      content |-> IF IsFile(fs, source) THEN fs.files[source]
                                  ELSE Absent,
                      changed |-> r.fs # fs, logged |-> Len(audit),
                      out |-> r.out, invoked |-> r.invoked,
                      raised |-> Execute(strategy, fs, source, target).raised,
                      other |-> [out |-> o.out, fs |-> o.fs,
                                 emitted |-> Len(o.audit) - Len(audit)]]
        /\ nOps' = nOps + 1
        /\ UNCHANGED <<engine, flt, san, strategy, audit_logger>>

\* set_strategy(strategy)
SetStrategy(strat) ==
    /\ nOps < MaxOps
    /\ strategy' = strat
    /\ nOps' = nOps + 1
    /\ UNCHANGED <<engine, flt, san, fs, audit_logger, audit, opCall>>

\* set_audit_logger(audit_logger)
SetAuditLogger(logger) ==
    /\ nOps < MaxOps
    /\ audit_logger' = logger
    /\ nOps' = nOps + 1
    /\ UNCHANGED <<engine, flt, san, fs, strategy, audit, opCall>>

\* paths of MAX_PATH_LENGTH and MAX_PATH_LENGTH + 1 characters, and paths with
\* a dangerous character in a segment
RefusedOrLong ==
    {LongPath(MAX_PATH_LENGTH), LongPath(MAX_PATH_LENGTH + 1), PlainPath(<<"d", "?">>)}
\* sources are files or missing names, targets also directories
SourcePaths == {PlainPath(<<"s">>), PlainPath(<<"d", "s">>)} \cup RefusedOrLong
TargetPaths ==
    {PlainPath(<<"s">>), PlainPath(<<"d">>), PlainPath(<<"d", "s">>),
     PlainPath(<<"n", "t">>),
     LongPath(MAX_PATH_LENGTH), LongPath(MAX_PATH_LENGTH + 1), PlainPath(<<"|">>)}

\* the content a file has when it is there at the start
InitialContent(p) ==
    CASE p = PlainPath(<<"s">>) -> 1
      [] p = PlainPath(<<"d", "s">>) -> 2
      [] p = PlainPath(<<"n", "t">>) -> 3

\* the file systems at the start: the directory d, any of the files, the
\* directory n when it holds a file or empty
InitialFileSystems ==
    {[files |-> [p \in FsFiles |-> IF p \in present THEN InitialContent(p) ELSE Absent],
      dirs |-> ds] :
        present \in SUBSET FsFiles,
        ds \in {{PlainPath(<<"d">>)}, FsDirs}}

FileInit ==
    /\ TrackerInit
    /\ IdleJob
    /\ fs \in {f \in InitialFileSystems :
                  \A p \in FsFiles : IsFile(f, p) => IsDir(f, Parent(p))}
    /\ strategy \in Strategies
    /\ audit_logger \in {"None", "AuditLogger"}
    /\ audit = <<>>
    /\ opCall = <<>>
    /\ nOps = 0
    /\ NoTail
    /\ NoLayout
    /\ NoService

FileNext ==
    \/ \E source \in SourcePaths, target \in TargetPaths :
           ExecuteOperation(source, target)
    \/ \E strat \in Strategies : SetStrategy(strat)
    \/ \E logger \in {"None", "AuditLogger"} : SetAuditLogger(logger)

FileSpec == FileInit /\ [][FileNext]_vars

\* ---- properties of the tracker ----

RECURSIVE SumOver(_, _)
SumOver(f, S) ==
    IF S = {} THEN 0
    ELSE LET x == CHOOSE y \in S : TRUE IN f[x] + SumOver(f, S \ {x})

\* counts still in thread-local counters, and counts of flushes that have
\* not yet merged under the lock
Pending == SumOver(counter, Threads)
InFlight ==
    SumOver([t \in Threads |->
                IF pc[t] \in {"flush_wait", "flush_locked"} THEN fl[t].count ELSE 0],
            Threads)

AllDone == \A t \in Clients : pc[t] = "done"

\* C1 as stated: after set_total(n) and exactly n increment() calls spread over
\* threads that have all finished, get_current() returns n.
C1_CurrentEqualsTotal ==
    (epoch > 0 /\ cleanEpoch /\ AllDone /\ incCalls = total) => current = total

\* C1 amended: after set_total(n) and exactly n increment() calls spread over
\* threads that have all finished, get_current() returns n minus the counts
\* left in the threads' local counters; it returns n when every thread called
\* flush() after its last increment().
C1_CurrentAfterFlush ==
    (epoch > 0 /\ cleanEpoch /\ AllDone /\ incCalls = total)
        => /\ current = total - Pending
           /\ (\A t \in Clients : counter[t] = 0) => current = total

C1_Witness ==
    /\ AllDone
    /\ total = 11
    /\ incCalls = total
    /\ \A t \in Clients : counter[t] = 0
    /\ current = 11

\* C5: between two set_total calls the (current, percentage) values a subscriber
\* is invoked with never decrease, whatever the interleaving of flushing threads.
C5_SubscriberSeesMonotone == ~regressed

\* C6: the thread that runs subscriber callbacks does not hold the tracker's
\* mutex, and whoever holds it is inside the short critical section of a flush,
\* so a callback that calls back into the tracker always gets the mutex.
C6_CallbacksOutsideLock ==
    /\ \A t \in Threads : pc[t] \in {"notify", "in_cb"} => lock # t
    /\ lock # Unlocked => pc[lock] = "flush_locked"
    /\ \A t \in Threads : pc[t] \in {"notify", "in_cb"} =>
           /\ fl[t].tot = total
           /\ \A i \in 1..Len(fl[t].cbs) : fl[t].cbs[i] \in Subs

C6_Witness ==
    \E t, u \in Threads :
        /\ t # u
        /\ pc[t] = "in_cb"
        /\ lock = u

\* C7: when a callback raises, the remaining subscribers of that notification
\* are still invoked, the exception does not reach the caller of increment()
\* or flush(), and the shared counter keeps the flushed count.
C7_CallbackErrorIsolated ==
    /\ \A t \in Threads :
           (pc[t] = "notify" /\ fl[t].idx > Len(fl[t].cbs)) =>
               /\ fl[t].invoked = fl[t].cbs
               /\ ~fl[t].exc
               /\ current >= fl[t].cur
    /\ cleanEpoch => current + Pending + InFlight = incCalls

C7_Witness ==
    \E t \in Threads :
        /\ pc[t] = "notify"
        /\ fl[t].idx > Len(fl[t].cbs)
        /\ Len(fl[t].cbs) >= 2
        /\ fl[t].raised = <<fl[t].cbs[1]>>
        /\ fl[t].invoked = fl[t].cbs
        /\ current = fl[t].cur

\* the table of set_total: <<batch size, interval in ticks of 0.01 s>>
TableRow(n) ==
    CASE n <= 10 -> <<1, 1>>
      [] n >= 11 /\ n <= 100 -> <<10, 10>>
      [] n >= 101 /\ n <= 999 -> <<300, 50>>
      [] n >= 1000 -> <<500, 50>>

FlushDecides == pc[0] = "flush_locked" /\ pc'[0] # "flush_locked"
\* no notification since the tracker was made or set_total was called
FirstNotification == last_notify_time = 0
\* the time since the last notification, read in this step, is at least the
\* notify interval
IntervalElapsed == now' - last_notify_time >= update_interval

Percentage(cur, tot) ==
    IF tot = 0 THEN 0
    ELSE IF cur >= tot THEN 100 * PctScale
    ELSE (100 * PctScale * cur) \div tot

\* C23: the percentage handed to the callbacks, and the one
\* _calculate_percentage returns, is 0.0 for total 0 and otherwise
\* min(100.0, 100 * current / total); it lies in [0, 100], also when current
\* exceeds total.
C23_PercentageClamped ==
    /\ \A s \in Subs :
           lastSeen[s] # <<>> =>
               /\ lastSeen[s][3] = Percentage(lastSeen[s][2], lastSeen[s][4])
               /\ lastSeen[s][3] >= 0
               /\ lastSeen[s][3] <= 100 * PctScale
    /\ CalculatePercentage(current, total) = Percentage(current, total)
    /\ CalculatePercentage(current, total) >= 0
    /\ CalculatePercentage(current, total) <= 100 * PctScale

\* a subscriber was invoked with current 2 of total 1, and with 100.0
C23_Witness ==
    /\ lastSeen[1] # <<>>
    /\ lastSeen[1][2] = 2
    /\ lastSeen[1][4] = 1
    /\ lastSeen[1][3] = 100 * PctScale
    /\ current > total

NoDuplicates(seq) == \A i, j \in 1..Len(seq) : seq[i] = seq[j] => i = j

\* C24: a callback subscribed twice is in the list once and is invoked once
\* per notification; unsubscribing a callback that is not subscribed changes
\* nothing; in one thread, a notification invokes exactly the callbacks
\* subscribed at that moment, so none that was unsubscribed before.
C24_SubscribeIdempotent ==
    /\ [](/\ NoDuplicates(callbacks)
          /\ \A s \in Subs :
                 /\ InSeq(s, callbacks) => Subscribed(s) = callbacks
                 /\ ~InSeq(s, callbacks) => Unsubscribed(s) = callbacks
                 /\ InSeq(s, Subscribed(s))
                 /\ ~InSeq(s, Unsubscribed(s))
          /\ pc[0] = "notify" =>
                 /\ fl[0].cbs = callbacks
                 /\ fl[0].invoked = SubSeq(callbacks, 1, fl[0].idx - 1))
    /\ [][\A s \in Subs : calls'[s] # calls[s] =>
                                /\ calls'[s] = calls[s] + 1
                                /\ InSeq(s, callbacks)]_vars

\* subscriber 1 was invoked once and then unsubscribed; subscriber 2 went on
\* being invoked
C24_Witness ==
    /\ pc[0] = "idle"
    /\ callbacks = <<2>>
    /\ calls[1] = 1
    /\ calls[2] = 2

\* C33 as stated: when set_total(n) returns, total is n and current is 0; when
\* reset() returns, both are 0; and the counts made before the call, also
\* those still pending in a thread-local counter, add nothing to current
\* afterwards: current never exceeds the number of increment() calls made
\* since the call.
C33_ResetDropsEarlierCounts ==
    /\ [][/\ (pc[0] = "set_total" /\ pc'[0] # "set_total") =>
                 (total' = fl[0].tot /\ current' = 0)
          /\ (epoch' # epoch /\ pc[0] = "idle") => (total' = 0 /\ current' = 0)]_vars
    /\ [](epoch > 0 => current <= incCalls)

\* ---- properties of the worker pool and of collect() ----

Returned == pc[0] \in {"executed", "returned"}

\* C2 as stated: with stop() never called, when execute() has returned every
\* input file went through the file operation exactly once and
\* get_current() = get_total() = len(files).
C2_EveryFileOnce ==
    Returned =>
        /\ \A f \in 1..nFiles : ExecCount(f) = 1
        /\ current = total
        /\ total = nFiles

\* C3 as stated: in the result of collect(), failed_files is the number of kept
\* files whose operation raised and processed_files the number of files whose
\* operation succeeded.
C3_FailedCountsRaised ==
    (pc[0] = "returned" /\ nFiles > 0) =>
        /\ result.failed_files = FailCount
        /\ result.processed_files = OkCount

\* C4: after collect() returned, total_files is the number of kept files,
\* processed_files + failed_files = total_files, and neither is negative.
C4_ResultAddsUp ==
    pc[0] = "returned" =>
        /\ result.total_files = nFiles
        /\ result.processed_files + result.failed_files = result.total_files
        /\ result.processed_files >= 0
        /\ result.failed_files >= 0

C4_Witness ==
    /\ pc[0] = "returned"
    /\ failing # {}
    /\ result.processed_files > 0
    /\ result.failed_files > 0

\* C8: for a job of 1..10 files, when execute() has returned every subscriber
\* was invoked at least once per file, and its last invocation carried
\* (percentage 100.0, current n, total n).
C8_TinyJobNotifiesEveryFile ==
    (Returned /\ nFiles >= 1 /\ nFiles <= 10) =>
        \A i \in 1..Len(callbacks) :
            LET s == callbacks[i]
            IN  /\ calls[s] >= nFiles
                /\ lastSeen[s] = <<epoch, nFiles, 100 * PctScale, nFiles>>

C8_Witness ==
    /\ pc[0] = "returned"
    /\ nFiles = 10
    /\ Len(callbacks) >= 2
    /\ \A i \in 1..Len(callbacks) : calls[callbacks[i]] = 10

\* C9: once the cancellation flag is set no worker starts another file (the
\* flag is read before each file), and execute() returns with
\* current <= total.
C9_CooperativeCancel ==
    /\ [][stop_event => pos' = pos]_vars
    /\ [](Returned => current <= total)

C9_Witness ==
    /\ Returned
    /\ stop_event
    /\ current < total
    /\ \E w \in 1..MaxCpu : pos[w] > 0 /\ pos[w] < BatchLen(w)

\* C10: when execute() has returned, cancelled or not, every worker thread it
\* started has ended, and afterwards no file is processed and no count is
\* added to the tracker.
C10_WorkersJoinedBeforeReturn ==
    /\ [](Returned => \A w \in 1..MaxCpu : pc[w] \in {"w_new", "w_done"})
    /\ [][Returned => /\ pos' = pos
                      /\ counter' = counter
                      /\ current' = current
                      /\ incCalls' = incCalls]_vars

C10_Witness ==
    /\ pc[0] = "returned"
    /\ stop_event
    /\ pc[1] = "w_done"
    /\ pc[2] = "w_done"
    /\ pos[2] > 0
    /\ current < total

\* C11: a file whose operation raises is counted like any other and the worker
\* goes on with the rest of its batch: with stop() never called, a worker that
\* has ended went through its whole batch, every other worker did too, and
\* execute() returns with one count per file handed to a worker.
C11_FailureIsolated ==
    /\ \A w \in 1..MaxCpu : pc[w] = "w_done" => pos[w] = BatchLen(w)
    /\ Returned =>
           /\ \A w \in 1..NumWorkers : pc[w] = "w_done"
           /\ current = SumOver(pos, 1..MaxCpu)
           /\ \A f \in failing : ExecCount(f) = 1

C11_Witness ==
    /\ Returned
    /\ failing = {1}
    /\ NumWorkers = 2
    /\ pos[1] = BatchLen(1)
    /\ pos[2] = BatchLen(2)
    /\ current = pos[1] + pos[2]

\* C12 as stated: no SecurityError is raised for an individual file inside a
\* running worker; a job with a refused path starts no worker.
C12_SecurityErrorsGlobal ==
    /\ SecurityErrorsInWorkers = {}
    /\ insecure # {} => \A w \in 1..MaxCpu : pc[w] = "w_new"

\* the worker threads started so far
Started == {w \in 1..MaxCpu : pc[w] # "w_new"}

WorkerBound(n, cpu) == Min(Min(cpu, Max(1, n \div 100)), 32)
\* numbers of files and of processors around the limits of the formula
BoundFileCounts == {1, 99, 100, 199, 200, 201, 3199, 3200, 3300, 10000}
BoundCpuCounts == {1, 2, 4, 31, 32, 33, 64}

\* C28: for a non-empty input, execute() starts at least one worker thread,
\* at most min(cpu_count, max(1, n_files / 100), 32), and at most one per
\* chunk; fewer than 200 files run on exactly one worker.
C28_WorkerCountBounds ==
    /\ Cardinality(Started) <= WorkerBound(nFiles, cpu_count)
    /\ Cardinality(Started) <= Len(Batches)
    /\ (nFiles > 0 /\ pc[0] \in {"join", "executed"}) =>
           /\ Cardinality(Started) >= 1
           /\ nFiles < 200 => Cardinality(Started) = 1
    /\ \A n \in BoundFileCounts, cpu \in BoundCpuCounts :
           LET num_workers == CalculateOptimalWorkers(n, cpu)
               started == Min(Len(CreateBatches(n, num_workers)), num_workers)
           IN  /\ started >= 1
               /\ started <= WorkerBound(n, cpu)
               /\ n < 200 => started = 1

C28_Witness ==
    /\ pc[0] = "executed"
    /\ nFiles = 201
    /\ cpu_count = 2
    /\ Len(Batches) = 3
    /\ Cardinality(Started) = 2

\* the path has no component that leaves a directory
Plain(p) == \A i \in 1..Len(p) : p[i] \notin {"..", ".", ""}
\* the directory of a source root
RootDir(p) == IF TreeIsFile(p) THEN TreeParent(p) ELSE p
\* the longest path that every path of the set is relative to
DeepestCommon(S) ==
    LET p == CHOOSE q \in S : TRUE
        n == CHOOSE k \in 0..Len(p) :
                 /\ \A q \in S : IsRelativeTo(q, SubSeq(p, 1, k))
                 /\ \A j \in (k + 1)..Len(p) :
                        \E q \in S : ~IsRelativeTo(q, SubSeq(p, 1, j))
    IN  SubSeq(p, 1, n)

\* C29: every target path a worker computes lies inside target_base: it is
\* target_base joined with the resolved file's path relative to source_base
\* when the resolved file is under source_base, and target_base joined with
\* the file's name otherwise; a file outside source_base gets a target too.
C29_TargetInsideBase ==
    /\ \A i \in 1..Len(target_path) :
           LET f == target_path[i].file
               t == target_path[i].target
               r == Resolved(f)
               b == source_base[1]
           IN  /\ IsRelativeTo(t, target_base)
               /\ Len(t) > Len(target_base)
               /\ Plain(t)
               /\ IsRelativeTo(r, b) =>
                      t = target_base \o SubSeq(r, Len(b) + 1, Len(r))
               /\ ~IsRelativeTo(r, b) => t = target_base \o <<Name(f)>>
    /\ source_base # <<>> =>
           \A f \in filtered_files :
               IsRelativeTo(TargetPath(f, source_base[1], target_base), target_base)

\* a file in a sub-directory of the base keeps its layout, and a file of the
\* second source, outside the base, got its name only
C29_Witness ==
    /\ source_paths = <<<<"a", "x">>, <<"a", "y">>>>
    /\ Len(target_path) = 2
    /\ \E i \in 1..2 : target_path[i] = [file |-> <<"a", "x", "s", "t">>,
                                          target |-> <<"t", "s", "t">>]
    /\ \E i \in 1..2 : target_path[i] = [file |-> <<"a", "y", "g">>,
                                          target |-> <<"t", "g">>]

\* C30 as stated: the common base is the deepest directory that is an ancestor
\* of every kept file and of every declared source root; with exactly one
\* declared source it is that source (its directory, if it is a file).
C30_DeepestCommonBase ==
    source_base # <<>> =>
        /\ source_base[1] =
               DeepestCommon({TreeParent(f) : f \in filtered_files}
                                 \cup {RootDir(source_paths[i]) :
                                          i \in 1..Len(source_paths)})
        /\ Len(source_paths) = 1 => source_base[1] = RootDir(source_paths[1])

\* C26: after a DELETE of a known job has answered 200, the job stays unknown:
\* no progress or completion update of its background thread brings the
\* record back, and every progress, result, status or delete request that
\* begins afterwards is answered 404.
C26_DeletedStaysUnknown ==
    /\ \A j \in cancelled : j \notin DOMAIN jobs
    /\ (response # <<>> /\ response.late) => response.code = 404

\* job 1 was deleted while its thread ran; the thread then reported progress
\* and completion; a later request for the job got 404
C26_Witness ==
    /\ 1 \in cancelled
    /\ 1 \in DOMAIN bg
    /\ bg[1] = "done"
    /\ lateUpdates = 2
    /\ response # <<>>
    /\ response.job_id = 1
    /\ response.kind = "result"
    /\ response.late
    /\ response.code = 404

\* the requests of the last caller's key that were allowed before its call
AllowedBefore ==
    LET log == allowed[answer.key]
    IN  IF answer.ok THEN SubSeq(log, 1, Len(log) - 1) ELSE log
\* how many of them lie within the window that ends at the call
RecentlyAllowed ==
    Cardinality({i \in 1..Len(AllowedBefore) :
                    answer.at - AllowedBefore[i] < window_seconds})

\* C27: is_allowed(key) returns true iff fewer than max_requests requests of
\* that key were allowed within the preceding window_seconds; so no window
\* holds more than max_requests allowed requests of a key, and a call changes
\* what was recorded for its own key only.
C27_RateLimit ==
    /\ [](/\ answer # <<>> => (answer.ok <=> RecentlyAllowed < max_requests)
          /\ \A k \in Keys : \A i \in 1..Len(allowed[k]) :
                 Cardinality({j \in i..Len(allowed[k]) :
                                 allowed[k][j] - allowed[k][i] < window_seconds})
                     <= max_requests)
    /\ [][\A k \in Keys :
              (allowed'[k] # allowed[k] \/ requests'[k] # requests[k]) =>
                  answer'.key = k]_vars

\* 2 requests per 2 s: key a was allowed twice at 0 and again at 2, when the
\* window had elapsed; key b, allowed at 1 and 2, has just been rejected
C27_Witness ==
    /\ max_requests = 2
    /\ window_seconds = 2
    /\ allowed["a"] = <<0, 0, 2>>
    /\ allowed["b"] = <<1, 2>>
    /\ answer = [key |-> "b", at |-> 2, ok |-> FALSE]

\* C31 as stated: the chunks execute() gets from _create_batches are
\* contiguous, their concatenation is the input in order, each has
\* ceil(n_files / n_workers) files except possibly a smaller last one, and
\* there are never more than n_workers of them.
C31_ChunksOfCeilSize ==
    (nFiles > 0 /\ pc[0] \in {"spawn", "join", "executed"}) =>
        LET n_workers == CalculateOptimalWorkers(nFiles, cpu_count)
            size == (nFiles + n_workers - 1) \div n_workers
        IN  /\ Batches[1][1] = 0
            /\ Batches[Len(Batches)][2] = nFiles
            /\ \A k \in 1..(Len(Batches) - 1) :
                   /\ Batches[k][2] = Batches[k + 1][1]
                   /\ BatchLen(k) = size
            /\ BatchLen(Len(Batches)) >= 1
            /\ BatchLen(Len(Batches)) <= size
            /\ Len(Batches) <= n_workers

\* C32: every worker flushes its thread-local count before it ends, cancelled
\* or not: a worker that has ended holds no pending count, and when execute()
\* has returned the shared current is the number of increment() calls the
\* workers made, with no flush by the caller.
C32_WorkersFlushBeforeExit ==
    /\ \A w \in 1..MaxCpu : pc[w] = "w_done" => counter[w] = 0
    /\ Returned =>
           /\ \A t \in Threads : counter[t] = 0
           /\ current = SumOver(pos, 1..MaxCpu)
           /\ nFiles > 0 => current = incCalls

\* 200 files on two workers, batch size 300: cancelled part-way, and every
\* count reached current through the flush at the end of the worker
C32_Witness ==
    /\ Returned
    /\ stop_event
    /\ nFiles = 200
    /\ batch_size > 100
    /\ pos[1] > 1
    /\ pos[2] > 1
    /\ pos[1] < BatchLen(1)
    /\ current = pos[1] + pos[2]

\* ---- properties of the file filter ----

\* the paths of a list that at least one pattern matches, uncached
MatchedByAny(filepaths, patterns) ==
    SelectSeq(filepaths,
              LAMBDA p : \E i \in 1..Len(patterns) :
                  Evaluate(p, patterns[i].pattern, patterns[i].pattern_type))

\* C13 as stated: filter_files returns its input when the pattern list is
\* empty, and otherwise exactly the paths matched by at least one pattern, in
\* input order, each occurrence once.
C13_FilterKeepsMatched ==
    (lastCall # <<>> /\ lastCall.op = "filter_files") =>
        lastCall.ret = IF lastCall.patterns = <<>> THEN lastCall.filepaths
                       ELSE MatchedByAny(lastCall.filepaths, lastCall.patterns)

\* C14 as stated: every match(path, pattern) returns what the uncached
\* evaluation of (path, pattern text, pattern kind) returns, and no entry of
\* the memo is returned for a triple other than the one that stored it.
C14_MemoKeyedByTriple ==
    /\ ~mismatch
    /\ ~foreignHit

\* ---- properties of path_sanitizer ----

\* the `..` segments of relative lead out of the base directory
EscapesBase(base, relative) ==
    LET b == Parts(base)
    IN  ~IsRelativeTo(ResolveFrom(<<>>, b \o Parts(relative)), ResolveFrom(<<>>, b))

\* C15 as stated: resolve_path(base, relative) returns a path P for which
\* validate_path_traversal(P, base) is true, or raises SecurityError; it raises
\* when relative is absolute or its `..` segments escape base.
C15_ResolveWithinBase ==
    rpCall # <<>> =>
        /\ rpCall.out.kind \in {"path", "SecurityError"}
        /\ rpCall.out.kind = "path" =>
               ValidatePathTraversal(rpCall.out.path, Parts(rpCall.base)) = "True"
        /\ IsAbs(rpCall.relative) => rpCall.out.kind = "SecurityError"
        /\ EscapesBase(rpCall.base, rpCall.relative) => rpCall.out.kind # "path"

\* ---- properties of file_operations ----

LongerThanMax(path) == StrLen(path) > MAX_PATH_LENGTH
DangerousSegment(path) ==
    \E i \in 1..Len(path) : \E j \in 1..Len(path[i].text) :
        path[i].text[j] \in DangerousChars
Refusable(path) == LongerThanMax(path) \/ DangerousSegment(path)

\* C16: execute_operation raises SecurityError without invoking the strategy,
\* without a change of the file system and without an audit record whenever
\* the source or the target path is longer than 4096 characters or has a
\* segment with a dangerous character; a path of exactly 4096 characters is
\* not refused for its length.
C16_RefusedBeforeStrategy ==
    opCall # <<>> =>
        /\ (Refusable(opCall.source) \/ Refusable(opCall.target)) =>
               /\ opCall.out = "SecurityError"
               /\ ~opCall.invoked
               /\ ~opCall.changed
               /\ Len(audit) = opCall.logged
        /\ (~Refusable(opCall.source) /\ ~Refusable(opCall.target)) =>
               /\ opCall.out # "SecurityError"
               /\ opCall.invoked
        /\ StrLen(LongPath(MAX_PATH_LENGTH)) = MAX_PATH_LENGTH
        /\ ~Refusable(LongPath(MAX_PATH_LENGTH))

\* an existing source, a target one character too long, an audit logger: the
\* call raised SecurityError
C16_Witness ==
    /\ opCall # <<>>
    /\ opCall.source = PlainPath(<<"s">>)
    /\ opCall.target = LongPath(MAX_PATH_LENGTH + 1)
    /\ opCall.content # Absent
    /\ opCall.audit_logger = "AuditLogger"
    /\ opCall.out = "SecurityError"

\* C17: a call of execute_operation that passes the security checks, with an
\* audit logger: when the strategy succeeds the call returns and exactly one
\* operation record and no error record is emitted; when the strategy raises,
\* FileOperationError is raised and exactly one error record is emitted.
\* Without an audit logger the file system and the outcome are the same and
\* nothing is emitted.
C17_OneRecordPerCall ==
    (opCall # <<>> /\ ~Refusable(opCall.source) /\ ~Refusable(opCall.target)) =>
        /\ opCall.out \in {"ok", "FileOperationError"}
        /\ opCall.audit_logger = "None" => Len(audit) = opCall.logged
        /\ opCall.audit_logger = "AuditLogger" =>
               /\ Len(audit) = opCall.logged + 1
               /\ audit[Len(audit)].kind =
                      (IF opCall.out = "ok" THEN "operation" ELSE "error")
               /\ audit[Len(audit)].operation = opCall.strategy
               /\ audit[Len(audit)].source = opCall.source
               /\ audit[Len(audit)].target = opCall.target
        /\ (opCall.out = "ok") = (opCall.raised = "")
        /\ opCall.other.out = opCall.out
        /\ opCall.other.fs = fs
        /\ opCall.other.emitted =
               (IF opCall.audit_logger = "None" THEN 1 ELSE 0)

\* two calls with an audit logger, the first succeeded and the second raised:
\* one operation record, then one error record
C17_Witness ==
    /\ opCall # <<>>
    /\ opCall.audit_logger = "AuditLogger"
    /\ opCall.out = "FileOperationError"
    /\ Len(audit) = 2
    /\ audit[1].kind = "operation"
    /\ audit[2].kind = "error"

\* C18 as stated: after a successful execute(source, target) of the copy
\* strategy the target exists with the content of the source, the parent
\* directories of the target exist, and the source exists with its content
\* unchanged.
C18_CopyLeavesEqualTarget ==
    (opCall # <<>> /\ opCall.strategy = "copy" /\ opCall.out = "ok") =>
        /\ IsFile(fs, opCall.target)
        /\ fs.files[opCall.target] = opCall.content
        /\ IsDir(fs, Parent(opCall.target))
        /\ IsFile(fs, opCall.source)
        /\ fs.files[opCall.source] = opCall.content

\* C19 as stated: after a successful execute(source, target) of the move or
\* the move_remove strategy the source no longer exists and the content of
\* the target is the content the source had before.
C19_MoveLeavesOnlyTarget ==
    (opCall # <<>> /\ opCall.strategy \in {"move", "moveremove"}
                  /\ opCall.out = "ok") =>
        /\ ~Exists(fs, opCall.source)
        /\ IsFile(fs, opCall.target)
        /\ fs.files[opCall.target] = opCall.content

\* ---- properties of collect(): system information and archive ----

Has(r, key) == key \in DOMAIN r
Counts(r) == <<r["total_files"], r["processed_files"], r["failed_files"]>>

\* C20: a failure of the system-information collector or of the archiver
\* inside collect() never leaves collect(): collect() returns, with
\* pc_info_collected false, or with archive_created false and archive_error.
\* Once the result holds total_files, processed_files and failed_files, no
\* later step of collect() changes them.
C20_CollaboratorFailuresRecorded ==
    /\ [](/\ pc[0] # "raised"
          /\ "pc_info" \in failed =>
                 /\ Has(result, "pc_info_collected")
                 /\ ~result["pc_info_collected"]
          /\ "archive" \in failed =>
                 /\ pc[0] = "returned"
                 /\ Has(result, "archive_created")
                 /\ ~result["archive_created"]
                 /\ Has(result, "archive_error"))
    /\ [][result # <<>> =>
              /\ result' # <<>>
              /\ Counts(result') = Counts(result)]_vars

\* both collaborators raised, the archiver after its callback had run:
\* collect() returned the counts of the two kept files
C20_Witness ==
    /\ pc[0] = "returned"
    /\ failed = {"pc_info", "archive"}
    /\ archived > 0
    /\ nFiles = 2
    /\ Counts(result) = <<2, 2, 0>>
    /\ ~result["pc_info_collected"]
    /\ ~result["archive_created"]

\* C34: when no file survives the filter, collect() returns total_files =
\* processed_files = failed_files = 0 and nothing else happens: no worker
\* thread is started, no file goes through a file operation, set_total is not
\* called, and neither the system-information collector nor the archiver is
\* invoked, whatever the configuration asks for.
C34_NoFilesNothingRuns ==
    nFiles = 0 =>
        /\ pc[0] \in {"idle", "returned"}
        /\ \A w \in 1..MaxCpu : pc[w] = "w_new" /\ pos[w] = 0
        /\ workers = 0
        /\ epoch = 0
        /\ archived = 0
        /\ failed = {}
        /\ pc[0] = "returned" =>
               result = [total_files |-> 0, processed_files |-> 0, failed_files |-> 0]

\* no kept file, system information and archive both asked for
C34_Witness ==
    /\ nFiles = 0
    /\ pc[0] = "returned"
    /\ collect_system_info
    /\ create_archive
    /\ Counts(result) = <<0, 0, 0>>

\* C35 as stated: a stop() called at any moment, also before the thread that
\* runs collect() has entered execute(), is not lost: once stop() has been
\* called no worker goes on to another file. execute() begins with
\* _stop_event.clear(), which erases a stop() that came before it.
C35_StopIsNotLost ==
    [][stopped => pos' = pos]_vars

\* C36 as stated: within one collect() distinct kept source files are written
\* to distinct target paths, for any number of declared sources. Taken here for
\* regular files only, where two paths are two files. A file outside the base,
\* which is the first declared source, is written under its name alone.
C36_DistinctTargets ==
    \A i, j \in 1..Len(target_path) :
        (/\ i # j
         /\ target_path[i].file \in TreeFiles
         /\ target_path[j].file \in TreeFiles)
            => target_path[i].target # target_path[j].target

\* C37 as stated: for a job of any size that is not cancelled, a subscriber
\* eventually receives a notification with current == total: the final flush
\* of the last worker is never suppressed by the notify throttle. With more
\* than 10 files _flush_updates notifies only when update_interval has
\* elapsed since the last notification, the final flush included.
C37_FinalNotificationArrives ==
    (pc[0] = "execute" /\ nFiles > 0 /\ callbacks # <<>>)
        ~> (\E s \in Subs : /\ lastSeen[s] # <<>>
                            /\ lastSeen[s][2] = nFiles
                            /\ lastSeen[s][4] = nFiles)

\* C38 as stated: once unsubscribe(cb) has returned, cb is never invoked
\* again, also when other threads are flushing concurrently: a subscriber that
\* is not in the list of callbacks is not invoked. _flush_updates copies the
\* list under the lock and invokes the copy after releasing it.
C38_NoCallAfterUnsubscribe ==
    [][\A s \in Subs : ~InSeq(s, callbacks) => calls'[s] = calls[s]]_vars

\* C39 as stated: during one collect(), its archive phase included, every
\* value the tracker holds or reports to a subscriber satisfies
\* 0 <= current <= total. archive_progress_callback calls increment() on the
\* tracker whose total is the number of kept files, all of them counted by
\* then.
C39_CurrentWithinTotal ==
    /\ 0 <= current
    /\ current <= total
    /\ \A s \in Subs : lastSeen[s] # <<>> =>
           (0 <= lastSeen[s][2] /\ lastSeen[s][2] <= lastSeen[s][4])

\* C40 as stated: every job record created by POST /collect eventually leaves
\* the pending status: unless it is deleted it reaches completed or failed,
\* that status never changes again, and the job's service is removed from
\* active_services. create_job comes before CollectionService(config), whose
\* validate_config raises for a source that is no directory: the record stays
\* pending and no thread is started for it.
Final(j) == j \in DOMAIN jobs /\ jobs[j].status \in {"completed", "failed"}

C40_JobLeavesPending ==
    /\ \A j \in JobIds :
           (j \in DOMAIN jobs /\ jobs[j].status = "pending")
               ~> (j \notin DOMAIN jobs \/ Final(j))
    /\ [][\A j \in JobIds :
              (Final(j) /\ j \in DOMAIN jobs') => jobs'[j].status = jobs[j].status]_vars
    /\ \A j \in JobIds : Final(j) ~> (j \notin active_services)

====
